---- MODULE Spec2Model ----
(***************************************************************************)
(* MedAdapt content server: the resource store (database.py), the two      *)
(* source adapters (pubmed_utils.py, bookshelf_utils.py) and the           *)
(* resolution engine (content_server.py: search_medical_content and        *)
(* get_resource_content).                                                  *)
(*                                                                         *)
(* Text is modelled as a sequence of tokens (a token is a word or a        *)
(* punctuation mark), so that prefixes, substrings, splitting and JSON     *)
(* serialisation are computed, not assumed.  Python's None / SQL NULL is   *)
(* the one-token text None, which no real text contains.                   *)
(***************************************************************************)
EXTENDS Integers, Sequences, FiniteSets, TLC

VARIABLES
    resources,       \* the resources table: stored id -> row
    user_documents,  \* the user_documents table: stored id -> row
    locked,          \* a discarded, not yet finalised connection holds the write lock
    now,             \* the value of datetime.now()
    gets,            \* stored id -> the get_resource calls that found it and returned
    call,            \* the last call: its arguments, local values and result
    topic_mappings,  \* the topic_mappings table: <<topic, parent_topic>> -> its rows
    files,           \* the database file, a backup file and the .temp copy: what each holds
    conns            \* caller -> its call in progress, statement by statement

vars == <<resources, user_documents, locked, now, gets, call, topic_mappings, files, conns>>

-----------------------------------------------------------------------------
(* Bounds of the model *)

\* datetime.now() takes the values 0..MaxClock
MaxClock == 1

\* get_resource is explored while access_count < MaxAccess
MaxAccess == 2

\* max_results ranges over -1..MaxResults
MaxResults == 3

\* rows of topic_mappings that one key with a NULL parent_topic may come to hold
MaxRows == 2

-----------------------------------------------------------------------------
(* Text and Python values *)

None == <<"<None>">>

\* Python truthiness of an optional string: None and "" are falsy
TruthyText(s) == s # None /\ s # <<>>

\* str.startswith
StartsWith(s, p) == Len(s) >= Len(p) /\ SubSeq(s, 1, Len(p)) = p

\* str.replace(old, ""): every occurrence of old is removed, left to right
RECURSIVE RemoveAll(_, _)
RemoveAll(s, old) ==
    IF s = <<>> THEN <<>>
    ELSE IF StartsWith(s, old) THEN RemoveAll(SubSeq(s, Len(old) + 1, Len(s)), old)
    ELSE <<Head(s)>> \o RemoveAll(Tail(s), old)

\* str.split("-"): the list of the parts between dashes (always at least one part)
RECURSIVE SplitDash(_)
SplitDash(s) ==
    IF \A i \in 1..Len(s) : s[i] # "-" THEN <<s>>
    ELSE LET k == CHOOSE i \in 1..Len(s) : s[i] = "-" /\ \A j \in 1..(i - 1) : s[j] # "-"
         IN  <<SubSeq(s, 1, k - 1)>> \o SplitDash(SubSeq(s, k + 1, Len(s)))

\* The values cached_content takes as a Python object
PyNone == [t |-> "none", s |-> <<>>]
EmptyDict == [t |-> "dict0", s |-> <<>>]
ContentDict(c) == [t |-> "dict", s |-> c]
PyStr(s) == [t |-> "str", s |-> s]

\* Python truthiness of such a value: None, {} and "" are falsy
Truthy(v) ==
    CASE v.t = "none"  -> FALSE
      [] v.t = "dict0" -> FALSE
      [] v.t = "dict"  -> TRUE
      [] v.t = "str"   -> v.s # <<>>

\* json.dumps of such a value, as text
Dumps(v) ==
    CASE v.t = "none"  -> <<"null">>
      [] v.t = "dict0" -> <<"{", "}">>
      [] v.t = "dict"  -> <<"{", "content", ":">> \o v.s \o <<"}">>
      [] v.t = "str"   -> <<"'">> \o v.s \o <<"'">>

\* json.loads of a stored text (the store only ever holds texts made by Dumps)
Loads(text) ==
    IF text = <<"null">> THEN PyNone
    ELSE IF text = <<"{", "}">> THEN EmptyDict
    ELSE IF Len(text) >= 4 /\ SubSeq(text, 1, 3) = <<"{", "content", ":">> /\ text[Len(text)] = "}"
         THEN ContentDict(SubSeq(text, 4, Len(text) - 1))
    ELSE PyStr(SubSeq(text, 2, Len(text) - 1))

\* SQLite's LIKE folds ASCII case
Fold(tok) == IF tok = "Heart" THEN "heart" ELSE tok

\* text LIKE pattern, with the wildcards % (any run) and _ (any one token)
RECURSIVE LikeMatch(_, _)
LikeMatch(s, p) ==
    IF p = <<>> THEN s = <<>>
    ELSE IF Head(p) = "%"
         THEN LikeMatch(s, Tail(p)) \/ (s # <<>> /\ LikeMatch(Tail(s), p))
    ELSE /\ s # <<>>
         /\ (Head(p) = "_" \/ Fold(Head(s)) = Fold(Head(p)))
         /\ LikeMatch(Tail(s), Tail(p))

\* column LIKE '%query%'; a NULL column never matches
Like(column, query) == column # None /\ LikeMatch(column, <<"%">> \o query \o <<"%">>)

\* dict.get(key), None when the key is absent
DictGet(d, k) == IF k \in DOMAIN d THEN d[k] ELSE None

-----------------------------------------------------------------------------
(* ResourceStore: the resources table *)

\* a table is a function from the stored primary keys to their rows
EmptyTable == [i \in {} |-> 0]

\* no database file, no backup file, no .temp copy
NoFiles == [backup |-> "absent", target |-> "absent", temp |-> "absent"]

Stored(db, id) == id \in DOMAIN db

Upsert(db, id, row) == [i \in DOMAIN db \cup {id} |-> IF i = id THEN row ELSE db[i]]

\* json.dumps(resource_data.get('cached_content', {}))
CachedText(resource_data) ==
    IF "cached_content" \in DOMAIN resource_data
    THEN Dumps(resource_data.cached_content)
    ELSE Dumps(EmptyDict)

\* the eight column values both SQL statements of add_resource bind
BoundColumns(resource_data, t) ==
    [title          |-> resource_data.title,
     source_type    |-> resource_data.source_type,
     specialty      |-> DictGet(resource_data, "specialty"),
     difficulty     |-> DictGet(resource_data, "difficulty"),
     content_type   |-> DictGet(resource_data, "content_type"),
     source_id      |-> DictGet(resource_data, "source_id"),
     cached_content |-> CachedText(resource_data),
     last_updated   |-> t]

\* (variant, to test the properties) an UPDATE that leaves last_updated out of its SET list
UpdatedRowStale(old, resource_data, t) ==
    [id |-> old.id, title |-> resource_data.title,
     source_type |-> resource_data.source_type,
     specialty |-> DictGet(resource_data, "specialty"),
     difficulty |-> DictGet(resource_data, "difficulty"),
     content_type |-> DictGet(resource_data, "content_type"),
     source_id |-> DictGet(resource_data, "source_id"),
     cached_content |-> CachedText(resource_data),
     last_updated |-> old.last_updated, access_count |-> old.access_count]

\* (variant, to test the properties) an UPDATE that sets access_count back to 0
UpdatedRowReset(old, resource_data, t) ==
    [id |-> old.id, title |-> resource_data.title,
     source_type |-> resource_data.source_type,
     specialty |-> DictGet(resource_data, "specialty"),
     difficulty |-> DictGet(resource_data, "difficulty"),
     content_type |-> DictGet(resource_data, "content_type"),
     source_id |-> DictGet(resource_data, "source_id"),
     cached_content |-> CachedText(resource_data),
     last_updated |-> t, access_count |-> 0]

\* (variant, to test the properties) an UPDATE that also counts as a read
UpdatedRowCounting(old, resource_data, t) ==
    [id |-> old.id, title |-> resource_data.title,
     source_type |-> resource_data.source_type,
     specialty |-> DictGet(resource_data, "specialty"),
     difficulty |-> DictGet(resource_data, "difficulty"),
     content_type |-> DictGet(resource_data, "content_type"),
     source_id |-> DictGet(resource_data, "source_id"),
     cached_content |-> CachedText(resource_data),
     last_updated |-> t, access_count |-> old.access_count + 1]

\* UPDATE resources SET ... WHERE id = ?: access_count is not in the SET list
UpdatedRow(old, resource_data, t) ==
    LET c == BoundColumns(resource_data, t)
    IN  [id |-> old.id, title |-> c.title, source_type |-> c.source_type,
         specialty |-> c.specialty, difficulty |-> c.difficulty,
         content_type |-> c.content_type, source_id |-> c.source_id,
         cached_content |-> c.cached_content, last_updated |-> c.last_updated,
         access_count |-> old.access_count]

\* INSERT INTO resources ... VALUES (..., 0)
InsertedRow(resource_data, t) ==
    LET c == BoundColumns(resource_data, t)
    IN  [id |-> resource_data.id, title |-> c.title, source_type |-> c.source_type,
         specialty |-> c.specialty, difficulty |-> c.difficulty,
         content_type |-> c.content_type, source_id |-> c.source_id,
         cached_content |-> c.cached_content, last_updated |-> c.last_updated,
         access_count |-> 0]

\* resource_data['id'], ['title'] or ['source_type'] raises KeyError
MissingKey(resource_data) == ~({"id", "title", "source_type"} \subseteq DOMAIN resource_data)

\* title and source_type are NOT NULL columns: binding None raises IntegrityError
NullViolation(resource_data) ==
    resource_data.title = None \/ resource_data.source_type = None

\* the table after add_resource(resource_data) at time t, when both statements run
add_resource(db, resource_data, t) ==
    IF Stored(db, resource_data.id)
    THEN Upsert(db, resource_data.id, UpdatedRow(db[resource_data.id], resource_data, t))
    ELSE Upsert(db, resource_data.id, InsertedRow(resource_data, t))

\* One call of add_resource on its own new connection.  lk: another connection,
\* discarded but not yet finalised, still holds the database's write lock.
\* The SELECT needs no write lock; the INSERT/UPDATE does, and raises
\* OperationalError (database is locked) without it.  When the statement raises,
\* commit() and close() are skipped: after an IntegrityError the connection is
\* left with its write transaction open, and the table is unchanged.
AddResourceCall(db, lk, resource_data, t) ==
    IF MissingKey(resource_data)
    THEN [db |-> db, locked |-> lk, raised |-> TRUE, error |-> "KeyError"]
    ELSE IF lk
    THEN [db |-> db, locked |-> lk, raised |-> TRUE, error |-> "OperationalError"]
    ELSE IF NullViolation(resource_data)
    THEN [db |-> db, locked |-> TRUE, raised |-> TRUE, error |-> "IntegrityError"]
    ELSE [db |-> add_resource(db, resource_data, t), locked |-> FALSE, raised |-> FALSE,
          error |-> "none"]

\* (variant, to test the properties) dict(row) with cached_content left as the stored text
ParsedRowAsText(row) == [row EXCEPT !.cached_content = PyStr(row.cached_content)]

\* dict(row) with cached_content parsed when it is a non-empty text
ParsedRow(row) ==
    [row EXCEPT !.cached_content =
        IF TruthyText(row.cached_content) THEN Loads(row.cached_content)
        ELSE IF row.cached_content = None THEN PyNone ELSE PyStr(<<>>)]

\* (variant, to test the properties) an UPDATE that adds 2
IncrementedTwice(row) == [row EXCEPT !.access_count = @ + 2]

\* UPDATE resources SET access_count = access_count + 1 WHERE id = ?
Incremented(row) == [row EXCEPT !.access_count = @ + 1]

\* the table after get_resource(resource_id), when its statements run
get_resource(db, resource_id) ==
    IF Stored(db, resource_id)
    THEN [db EXCEPT ![resource_id] = Incremented(db[resource_id])]
    ELSE db

\* One call of get_resource.  found: a row was SELECTed; result: dict(row) as
\* SELECTed, before the increment.  The UPDATE of a found row needs the write
\* lock and raises OperationalError without it; an unknown id is only read.
GetResourceCall(db, lk, resource_id) ==
    IF Stored(db, resource_id) /\ lk
    THEN [db |-> db, raised |-> TRUE, found |-> TRUE, result |-> ParsedRow(db[resource_id])]
    ELSE IF Stored(db, resource_id)
    THEN [db |-> get_resource(db, resource_id), raised |-> FALSE, found |-> TRUE,
          result |-> ParsedRow(db[resource_id])]
    ELSE [db |-> db, raised |-> FALSE, found |-> FALSE, result |-> [none |-> TRUE]]

\* the WHERE clause of search_resources: each filter applies only when it is truthy
Matches(row, query, specialty, difficulty, content_type) ==
    /\ TruthyText(query) => (Like(row.title, query) \/ Like(row.cached_content, query))
    /\ TruthyText(specialty) => row.specialty = specialty
    /\ TruthyText(difficulty) => row.difficulty = difficulty
    /\ TruthyText(content_type) => row.content_type = content_type

\* (variant, to test the properties) ORDER BY access_count ASC
OrderingsAscending(db, ids) ==
    {o \in [1..Cardinality(ids) -> ids] :
        /\ \A i, j \in 1..Cardinality(ids) : i # j => o[i] # o[j]
        /\ \A i, j \in 1..Cardinality(ids) :
              i < j => db[o[i]].access_count <= db[o[j]].access_count}

\* ORDER BY access_count DESC: every order of the matching keys with no ascent
\* (SQL leaves the order of ties open)
Orderings(db, ids) ==
    {o \in [1..Cardinality(ids) -> ids] :
        /\ \A i, j \in 1..Cardinality(ids) : i # j => o[i] # o[j]
        /\ \A i, j \in 1..Cardinality(ids) :
              i < j => db[o[i]].access_count >= db[o[j]].access_count}

\* LIMIT ?: a negative limit is no limit in SQLite
Limited(seq, limit) ==
    IF limit < 0 \/ limit >= Len(seq) THEN seq ELSE SubSeq(seq, 1, limit)

\* search_resources(...): the lists it may return
search_resources(db, query, specialty, difficulty, content_type, limit) ==
    LET ids == {i \in DOMAIN db : Matches(db[i], query, specialty, difficulty, content_type)}
    IN  {[k \in 1..Len(Limited(o, limit)) |-> ParsedRow(db[o[k]])] : o \in Orderings(db, ids)}

-----------------------------------------------------------------------------
(* Source adapters: the records they build from what the source returned *)

PubmedId(pmid) == <<"pubmed", "-">> \o pmid

BookshelfId(book_id) == <<"bookshelf", "-">> \o book_id

ChapterId(book_id, chapter_id) == <<"bookshelf", "-">> \o book_id \o <<"-">> \o chapter_id

\* one entry of search_pubmed's list
PubmedSearchRecord(pmid, title) ==
    [id |-> PubmedId(pmid), title |-> title, abstract |-> None,
     source_type |-> <<"pubmed">>, source_id |-> pmid, content_type |-> <<"article">>]

\* fetch_pubmed_article's success value
PubmedArticleRecord(pmid, title) ==
    [id |-> PubmedId(pmid), title |-> title, abstract |-> <<"No", "abstract", "available">>,
     mesh_terms |-> <<>>,
     source_type |-> <<"pubmed">>, source_id |-> pmid, content_type |-> <<"article">>]

\* one entry of search_bookshelf's list
BookshelfSearchRecord(book_id, title) ==
    [id |-> BookshelfId(book_id), title |-> title, publisher |-> None,
     source_type |-> <<"bookshelf">>, source_id |-> book_id, content_type |-> <<"textbook">>]

\* fetch_bookshelf_content's success value
BookRecord(book_id, title) ==
    [id |-> BookshelfId(book_id), title |-> title, chapters |-> <<>>,
     source_type |-> <<"bookshelf">>, source_id |-> book_id, content_type |-> <<"textbook">>]

\* fetch_chapter_content's success value (it carries no source_id)
ChapterRecord(book_id, chapter_id, title) ==
    [id |-> ChapterId(book_id, chapter_id), book_id |-> book_id, chapter_id |-> chapter_id,
     title |-> title, sections |-> <<>>,
     content_type |-> <<"chapter">>, source_type |-> <<"bookshelf">>]

\* the error value of a detail-fetch
FetchError(what) == [error |-> what]

\* search_pubmed: the list built from the source's reply; every failure inside
\* the adapter is caught there and gives the empty list
search_pubmed(reply) ==
    IF ~reply.ok THEN <<>>
    ELSE [i \in 1..Len(reply.items) |->
            PubmedSearchRecord(reply.items[i].source_id, reply.items[i].title)]

\* search_bookshelf: likewise
search_bookshelf(reply) ==
    IF ~reply.ok THEN <<>>
    ELSE [i \in 1..Len(reply.items) |->
            BookshelfSearchRecord(reply.items[i].source_id, reply.items[i].title)]

\* fetch_pubmed_article(pmid)
fetch_pubmed_article(pmid, reply) ==
    IF reply.kind = "error" THEN FetchError(<<"Error", "fetching", "article">>)
    ELSE IF reply.kind = "absent" THEN FetchError(<<"Article", "not", "found">>)
    ELSE PubmedArticleRecord(pmid, reply.title)

\* fetch_bookshelf_content(book_id)
fetch_bookshelf_content(book_id, reply) ==
    IF reply.kind = "error" THEN FetchError(<<"Error", "fetching", "book">>)
    ELSE IF reply.kind = "absent" THEN FetchError(<<"Book", "not", "found">>)
    ELSE BookRecord(book_id, reply.title)

\* fetch_chapter_content(book_id, chapter_id)
fetch_chapter_content(book_id, chapter_id, reply) ==
    IF reply.kind = "error" THEN FetchError(<<"Error", "fetching", "chapter">>)
    ELSE IF reply.kind = "absent" THEN FetchError(<<"Chapter", "not", "found">>)
    ELSE ChapterRecord(book_id, chapter_id, reply.title)

-----------------------------------------------------------------------------
(* ResolutionEngine: search_medical_content *)

\* (variant, to test the properties) all_results without the cut of line 110
SliceNothing(seq, n) == seq

\* Python's seq[:n]
Slice(seq, n) ==
    IF n >= Len(seq) THEN seq
    ELSE IF n >= 0 THEN SubSeq(seq, 1, n)
    ELSE IF Len(seq) + n > 0 THEN SubSeq(seq, 1, Len(seq) + n)
    ELSE <<>>

\* for result in results: database.add_resource(result) -- stops at the first
\* call that raises; the records before it stay stored
RECURSIVE StoreAll(_, _, _, _)
RECURSIVE StoreRest(_, _, _)
StoreAll(db, lk, results, t) ==
    IF results = <<>> THEN [db |-> db, locked |-> lk, raised |-> FALSE, error |-> "none"]
    ELSE StoreRest(AddResourceCall(db, lk, Head(results), t), Tail(results), t)

\* the loop after one call of add_resource
StoreRest(one, rest, t) ==
    IF one.raised THEN one ELSE StoreAll(one.db, one.locked, rest, t)

\* the records of results that StoreAll stored before it stopped
RECURSIVE StoredPrefix(_, _)
StoredPrefix(lk, results) ==
    IF results = <<>> \/ lk \/ MissingKey(Head(results)) \/ NullViolation(Head(results))
    THEN <<>>
    ELSE <<Head(results)>> \o StoredPrefix(lk, Tail(results))

\* (variant, to test the properties) the larger half for PubMed
PubmedCountCeiling(remaining) == (remaining + 1) \div 2

\* remaining_results // 2 for PubMed
PubmedCount(remaining) == remaining \div 2

\* the rest for Bookshelf
BookshelfCount(remaining) == remaining - PubmedCount(remaining)

\* (variant, to test the properties) an adapter phase whose except branch keeps the adapter's list
PhaseEndKeeping(s, results, puts) ==
    [db |-> s.db, locked |-> s.locked, called |-> TRUE, failed |-> s.raised,
     error |-> s.error, results |-> results, puts |-> puts]

\* the end of an adapter's try block: s is what the storing loop came to.  When
\* it raised, the except branch empties the adapter's results
PhaseEnd(s, results, puts) ==
    [db |-> s.db, locked |-> s.locked, called |-> TRUE, failed |-> s.raised,
     error |-> s.error,
     results |-> IF s.raised THEN <<>> ELSE results,
     puts |-> puts]

\* One adapter phase of search_medical_content (the try block of lines 81-91 or
\* 96-106): count is the allocation, results the adapter's list.  gc: the
\* garbage collector ran since the phase before and finalised a discarded
\* connection, which releases the write lock it held.
AdapterPhase(db, lk, count, results, gc, t) ==
    IF count > 0
    THEN PhaseEnd(StoreAll(db, lk /\ ~gc, results, t), results,
                  StoredPrefix(lk /\ ~gc, results))
    ELSE [db |-> db, locked |-> lk, called |-> FALSE, failed |-> FALSE, error |-> "none",
          results |-> <<>>, puts |-> <<>>]

\* the record of one adapter call
AdapterCall(fn, query, count, reply) ==
    [fn |-> fn, query |-> query, max_results |-> count, reply |-> reply]

\* lines 108-110: all_results = local + pubmed + bookshelf, cut to max_results
Combine(a, local, pubmed_reply, bookshelf_reply, pub, book) ==
    [db |-> book.db, locked |-> book.locked,
     result |-> Slice(local \o pub.results \o book.results, a.max_results),
     path |-> "fanout",
     adapters |->
         (IF pub.called
          THEN <<AdapterCall("search_pubmed", a.query,
                             PubmedCount(a.max_results - Len(local)), pubmed_reply)>>
          ELSE <<>>) \o
         (IF book.called
          THEN <<AdapterCall("search_bookshelf", a.query,
                             BookshelfCount(a.max_results - Len(local)), bookshelf_reply)>>
          ELSE <<>>),
     puts |-> pub.puts \o book.puts,
     pubmed_failed |-> pub.failed, bookshelf_failed |-> book.failed]

\* lines 93-110: the Bookshelf phase, run on what the PubMed phase left
AfterPubmed(a, local, pubmed_reply, bookshelf_reply, gc, t, pub) ==
    Combine(a, local, pubmed_reply, bookshelf_reply, pub,
            AdapterPhase(pub.db, pub.locked, BookshelfCount(a.max_results - Len(local)),
                         search_bookshelf(bookshelf_reply), gc, t))

\* (variant, to test the properties) search_medical_content without lines
\* 68-69, asking PubMed for one record whatever is left
SearchOutcomeEager(db, lk, a, local, pubmed_reply, bookshelf_reply, gc, t) ==
    AfterPubmed(a, local, pubmed_reply, bookshelf_reply, gc, t,
                AdapterPhase(db, lk, 1, search_pubmed(pubmed_reply), FALSE, t))

\* search_medical_content after its local search returned `local`
SearchOutcome(db, lk, a, local, pubmed_reply, bookshelf_reply, gc, t) ==
    IF Len(local) >= a.max_results
    THEN [db |-> db, locked |-> lk, result |-> local, path |-> "local",
          adapters |-> <<>>, puts |-> <<>>,
          pubmed_failed |-> FALSE, bookshelf_failed |-> FALSE]
    ELSE AfterPubmed(a, local, pubmed_reply, bookshelf_reply, gc, t,
                     AdapterPhase(db, lk, PubmedCount(a.max_results - Len(local)),
                                  search_pubmed(pubmed_reply), FALSE, t))

\* the value of the outer except branch (lines 111-114)
SearchFailed == <<[error |-> <<"Search", "failed">>]>>

-----------------------------------------------------------------------------
(* ResolutionEngine: get_resource_content *)

\* Python's None as a call's value
NoResource == [none |-> TRUE]

PubmedPrefix == <<"pubmed", "-">>

BookshelfPrefix == <<"bookshelf", "-">>

UserDocPrefix == <<"user", "-", "doc", "-">>

\* the value of the outer except branch (lines 180-183)
DetailFailed == [error |-> <<"Failed", "to", "retrieve", "resource">>]

\* line 168: f"User document not found: {resource_id}"
UserDocumentNotFound(resource_id) ==
    [error |-> <<"User", "document", "not", "found", ":">> \o resource_id]

\* (variant, to test the properties) line 170 returning the value of line 168
UnknownFormatAsNotFound(resource_id) == UserDocumentNotFound(resource_id)

\* line 170: f"Unknown resource ID format: {resource_id}"
UnknownFormat(resource_id) ==
    [error |-> <<"Unknown", "resource", "ID", "format", ":">> \o resource_id]

\* get_user_document's dict, reshaped by lines 160-166
UserDocumentContent(doc) ==
    [id |-> doc.id, title |-> doc.title, content |-> doc.content,
     upload_date |-> doc.upload_date, source_type |-> <<"user_provided">>]

\* lines 139-170: the routing by prefix.  kind: which branch ran; content: the
\* fetched value; adapters: the adapter calls made
Route(docs, resource_id, reply) ==
    IF StartsWith(resource_id, PubmedPrefix)
    THEN LET pmid == RemoveAll(resource_id, PubmedPrefix)
         IN  [kind |-> "fetch", content |-> fetch_pubmed_article(pmid, reply),
              adapters |-> <<[fn |-> "fetch_pubmed_article", args |-> <<pmid>>,
                              returned |-> fetch_pubmed_article(pmid, reply)]>>]
    ELSE IF StartsWith(resource_id, BookshelfPrefix)
    THEN LET parts == SplitDash(RemoveAll(resource_id, BookshelfPrefix))
         IN  IF Len(parts) > 1
             THEN [kind |-> "fetch",
                   content |-> fetch_chapter_content(parts[1], parts[2], reply),
                   adapters |-> <<[fn |-> "fetch_chapter_content",
                                   args |-> <<parts[1], parts[2]>>,
                                   returned |-> fetch_chapter_content(parts[1], parts[2],
                                                                      reply)]>>]
             ELSE [kind |-> "fetch",
                   content |-> fetch_bookshelf_content(parts[1], reply),
                   adapters |-> <<[fn |-> "fetch_bookshelf_content",
                                   args |-> <<parts[1]>>,
                                   returned |-> fetch_bookshelf_content(parts[1], reply)]>>]
    ELSE IF StartsWith(resource_id, UserDocPrefix)
    THEN IF resource_id \in DOMAIN docs
         THEN [kind |-> "fetch", content |-> UserDocumentContent(docs[resource_id]),
               adapters |-> <<>>]
         ELSE [kind |-> "doc_missing", content |-> UserDocumentNotFound(resource_id),
               adapters |-> <<>>]
    ELSE [kind |-> "malformed", content |-> UnknownFormat(resource_id),
          adapters |-> <<>>]

\* (variant, to test the properties) line 134 never taking the cache-hit branch
CacheNeverHit(g) == FALSE

\* line 134: resource and resource.get('cached_content')
CacheHit(g) == g.found /\ Truthy(g.result.cached_content)

\* (variant, to test the properties) a get_resource_content that hands back
\* None in place of an error value
DetailEndSwallowing(db, lk, result, path, adapters, puts, g) ==
    [db |-> db, locked |-> lk,
     result |-> IF "error" \in DOMAIN result THEN NoResource ELSE result,
     path |-> path, adapters |-> adapters, puts |-> puts, found |-> g.found,
     resource |-> g.result, got |-> g.found /\ ~g.raised]

\* what get_resource_content hands back, with what it did
DetailEnd(db, lk, result, path, adapters, puts, g) ==
    [db |-> db, locked |-> lk, result |-> result, path |-> path,
     adapters |-> adapters, puts |-> puts, found |-> g.found, resource |-> g.result,
     got |-> g.found /\ ~g.raised]

\* lines 172-179: w is what add_resource(content) came to
AfterStore(g, r, w) ==
    IF w.raised
    THEN DetailEnd(w.db, w.locked, DetailFailed, "exception", r.adapters, <<>>, g)
    ELSE DetailEnd(w.db, w.locked, r.content, "fetched", r.adapters, <<r.content>>, g)

\* (variant, to test the properties) lines 172-179 without the test of line
\* 173: whatever was fetched is stored
AfterRouteStoring(lk, t, g, r) ==
    IF r.kind # "fetch"
    THEN DetailEnd(g.db, lk, r.content, r.kind, r.adapters, <<>>, g)
    ELSE AfterStore(g, r, AddResourceCall(g.db, lk, r.content, t))

\* lines 168-179: r is what the routing came to
AfterRoute(lk, t, g, r) ==
    IF r.kind # "fetch"
    THEN DetailEnd(g.db, lk, r.content, r.kind, r.adapters, <<>>, g)
    ELSE IF "error" \in DOMAIN r.content
    THEN DetailEnd(g.db, lk, r.content, "fetch_error", r.adapters, <<>>, g)
    ELSE AfterStore(g, r, AddResourceCall(g.db, lk, r.content, t))

\* lines 133-179: g is what database.get_resource came to
AfterGet(db, docs, lk, resource_id, reply, t, g) ==
    IF g.raised
    THEN DetailEnd(db, lk, DetailFailed, "exception", <<>>, <<>>, g)
    ELSE IF CacheHit(g)
    THEN DetailEnd(g.db, lk, g.result, "hit", <<>>, <<>>, g)
    ELSE AfterRoute(lk, t, g, Route(docs, resource_id, reply))

\* get_resource_content(resource_id)
DetailOutcome(db, docs, lk, resource_id, reply, t) ==
    AfterGet(db, docs, lk, resource_id, reply, t, GetResourceCall(db, lk, resource_id))

-----------------------------------------------------------------------------
(* UserDocument store: add_user_document *)

\* f"user-doc-{datetime.now().strftime('%Y%m%d%H%M%S')}"
UserDocId(t) == UserDocPrefix \o <<ToString(t)>>

\* add_user_document(title, content).  The INSERT into user_documents runs on
\* conn and is not committed when add_resource opens a second connection, so the
\* write of add_resource meets conn's write lock and raises; conn is then never
\* committed nor closed: its INSERT is rolled back when it is finalised, and it
\* holds the lock until then.
UserDocumentRow(title, content, t) ==
    [id |-> UserDocId(t), title |-> title, content |-> content, upload_date |-> t]

\* lines 191-198
MirrorResource(title, content, t) ==
    [id |-> UserDocId(t), title |-> title, source_type |-> <<"user_provided">>,
     content_type |-> <<"document">>, cached_content |-> ContentDict(content),
     last_updated |-> t]

\* lines 200-205: w is what the nested add_resource came to
AfterMirror(db, docs, title, content, t, w) ==
    IF w.raised
    THEN [db |-> db, docs |-> docs, locked |-> TRUE, raised |-> TRUE, result |-> None]
    ELSE [db |-> w.db,
          docs |-> Upsert(docs, UserDocId(t), UserDocumentRow(title, content, t)),
          locked |-> FALSE, raised |-> FALSE, result |-> UserDocId(t)]

AddUserDocumentOutcome(db, docs, lk, title, content, t) ==
    IF lk
    THEN [db |-> db, docs |-> docs, locked |-> lk, raised |-> TRUE, result |-> None]
    ELSE IF UserDocId(t) \in DOMAIN docs
    THEN [db |-> db, docs |-> docs, locked |-> TRUE, raised |-> TRUE, result |-> None]
    ELSE AfterMirror(db, docs, title, content, t,
                     AddResourceCall(db, TRUE, MirrorResource(title, content, t), t))

-----------------------------------------------------------------------------
(* The values the calls are explored with *)

T1 == <<"heart">>

T2 == <<"Heart", "valve">>

Cardiology == <<"cardiology">>

Basic == <<"basic">>

Article == <<"article">>

P1 == PubmedId(<<"1">>)

P2 == PubmedId(<<"2">>)

B1 == BookshelfId(<<"B">>)

BC == ChapterId(<<"B">>, <<"C">>)

X1 == <<"test", "-", "1">>

\* a full record, as the callers of the store pass it to add_resource
CachedArticle ==
    [id |-> P1, title |-> T2, source_type |-> <<"pubmed">>, specialty |-> Cardiology,
     difficulty |-> Basic, content_type |-> Article, source_id |-> <<"1">>,
     cached_content |-> ContentDict(T1)]

\* a record without the optional keys
BareArticle == [id |-> P1, title |-> T1, source_type |-> <<"pubmed">>]

\* the test resource of the repository's tests
TestResource ==
    [id |-> X1, title |-> T1, source_type |-> <<"test">>, content_type |-> Article,
     cached_content |-> ContentDict(<<"a", "test">>)]

\* a record whose title is None
UntitledResource == [id |-> X1, title |-> None, source_type |-> <<"test">>]

\* what the store's callers pass to add_resource
StoreInputs == {CachedArticle, BareArticle, TestResource, UntitledResource}

\* the ids get_resource is asked for on the store
StoreIds == {P1, X1}

\* a record without content under an id of no known prefix
BareTest == [id |-> X1, title |-> T1, source_type |-> <<"test">>]

\* what is put into the store beside the engine's own writes
SeedInputs == {CachedArticle}

\* what is put into the store beside the writes of get_resource_content
DetailSeeds == {CachedArticle, BareTest}

\* a chapter whose ChapterID holds a dash
BCD == ChapterId(<<"B">>, <<"C", "-", "D">>)

\* the ids get_resource_content is asked for
RequestIds == {P1, B1, BC, BCD, X1, UserDocId(0)}

Item(source_id, title) == [source_id |-> source_id, title |-> title]

\* what PubMed answers to a search: a failure, or articles
PubmedReplies ==
    {[ok |-> FALSE, items |-> <<>>],
     [ok |-> TRUE, items |-> <<Item(<<"1">>, T1)>>],
     [ok |-> TRUE, items |-> <<Item(<<"1">>, T1), Item(<<"2">>, T1)>>],
     [ok |-> TRUE, items |-> <<Item(<<"1">>, T1), Item(<<"2">>, None)>>]}

\* what Bookshelf answers to a search
BookshelfReplies ==
    {[ok |-> FALSE, items |-> <<>>],
     [ok |-> TRUE, items |-> <<Item(<<"B">>, T1)>>],
     [ok |-> TRUE, items |-> <<Item(<<"B">>, None)>>]}

NoReply == [ok |-> FALSE, items |-> <<>>]

\* what a source answers to a detail fetch
FetchReplies ==
    {[kind |-> "error", title |-> None],
     [kind |-> "absent", title |-> None],
     [kind |-> "found", title |-> T1],
     [kind |-> "found", title |-> None]}

NoFetch == [kind |-> "error", title |-> None]

\* the arguments of search_medical_content
SearchArgs ==
    {[query |-> q.query, specialty |-> q.specialty, difficulty |-> q.difficulty,
      content_type |-> q.content_type, max_results |-> m] :
        q \in {[query |-> T1, specialty |-> None, difficulty |-> None,
                content_type |-> None],
               [query |-> <<>>, specialty |-> Cardiology, difficulty |-> Basic,
                content_type |-> Article]},
        m \in (-1)..MaxResults}

-----------------------------------------------------------------------------
(* The calls *)

Idle ==
    [op |-> "idle", arg |-> <<>>, result |-> <<>>, raised |-> FALSE, path |-> "none",
     adapters |-> <<>>, puts |-> <<>>, found |-> FALSE, resource |-> NoResource,
     local_results |-> <<>>, pre |-> EmptyTable, pre_locked |-> FALSE,
     pubmed_failed |-> FALSE, bookshelf_failed |-> FALSE,
     parents |-> <<>>, children |-> <<>>, siblings |-> <<>>,
     overview |-> NoResource, searched |-> <<>>]

\* the callers that may be inside the store at the same time, each call on a
\* connection of its own (get_db_connection)
Callers == {1, 2}

\* a caller between two calls.  pc: the statement the call has reached; found,
\* seen: what its SELECT returned; db, docs: the tables as its open write
\* transaction has them; at: the value of datetime.now() it read
NoConn ==
    [pc |-> "idle", op |-> "none", arg |-> <<>>, found |-> FALSE, seen |-> NoResource,
     raised |-> FALSE, error |-> "none", result |-> <<>>, db |-> EmptyTable,
     docs |-> EmptyTable, at |-> 0]

\* the count of the get_resource calls on an id, and its step
GetsOf(counts, id) == IF id \in DOMAIN counts THEN counts[id] ELSE 0

Counted(counts, id) == Upsert(counts, id, GetsOf(counts, id) + 1)

Init ==
    /\ resources = EmptyTable
    /\ user_documents = EmptyTable
    /\ locked = FALSE
    /\ now = 0
    /\ gets = EmptyTable
    /\ call = Idle
    /\ topic_mappings = EmptyTable
    /\ files = NoFiles
    /\ conns = [p \in Callers |-> NoConn]

\* database.add_resource(resource_data), called on the store directly
Put(resource_data) ==
    /\ call = Idle
    /\ \E out \in {AddResourceCall(resources, locked, resource_data, now)} :
        /\ resources' = out.db
        /\ locked' = out.locked
        /\ call' = [Idle EXCEPT !.op = "put", !.arg = resource_data,
                       !.raised = out.raised, !.pre = resources, !.pre_locked = locked,
                       !.found = Stored(resources, resource_data.id),
                       !.puts = IF out.raised THEN <<>> ELSE <<resource_data>>]
        /\ UNCHANGED <<files, topic_mappings, user_documents, now, gets, conns>>

\* database.get_resource(resource_id), called on the store directly
Get(resource_id) ==
    /\ call = Idle
    /\ \E out \in {GetResourceCall(resources, locked, resource_id)} :
        /\ Stored(resources, resource_id) => resources[resource_id].access_count < MaxAccess
        /\ resources' = out.db
        /\ call' = [Idle EXCEPT !.op = "get", !.arg = resource_id,
                       !.raised = out.raised, !.pre = resources, !.pre_locked = locked,
                       !.found = out.found, !.resource = out.result,
                       !.result = out.result]
        /\ gets' = IF out.found /\ ~out.raised THEN Counted(gets, resource_id) ELSE gets
        /\ UNCHANGED <<files, topic_mappings, user_documents, locked, now, conns>>

\* search_medical_content(query, specialty, difficulty, content_type, max_results),
\* its local search having returned `local`
SearchContent(a, local, pubmed_reply, bookshelf_reply, gc) ==
    /\ call = Idle
    /\ \E out \in {SearchOutcome(resources, locked, a, local, pubmed_reply,
                                   bookshelf_reply, gc, now)} :
        /\ resources' = out.db
        /\ locked' = out.locked
        /\ call' = [Idle EXCEPT !.op = "search", !.arg = a, !.result = out.result,
                       !.path = out.path, !.adapters = out.adapters,
                       !.puts = out.puts, !.local_results = local,
                       !.pre = resources, !.pre_locked = locked,
                       !.pubmed_failed = out.pubmed_failed,
                       !.bookshelf_failed = out.bookshelf_failed]
        /\ UNCHANGED <<files, topic_mappings, user_documents, now, gets, conns>>

\* search_medical_content when the local search raises (the store cannot be
\* read): the outer except branch returns the one-entry failure list
SearchUnavailable(a) ==
    /\ call = Idle
    /\ call' = [Idle EXCEPT !.op = "search", !.arg = a, !.result = SearchFailed,
                   !.path = "exception", !.pre = resources, !.pre_locked = locked]
    /\ UNCHANGED <<files, topic_mappings, resources, user_documents, locked, now, gets, conns>>

\* get_resource_content(resource_id)
Detail(resource_id, reply) ==
    /\ call = Idle
    /\ \E out \in {DetailOutcome(resources, user_documents, locked, resource_id, reply,
                                   now)} :
        /\ Stored(resources, resource_id) => resources[resource_id].access_count < MaxAccess
        /\ resources' = out.db
        /\ locked' = out.locked
        /\ call' = [Idle EXCEPT !.op = "detail", !.arg = resource_id, !.result = out.result,
                       !.path = out.path, !.adapters = out.adapters, !.puts = out.puts,
                       !.found = out.found, !.resource = out.resource,
                       !.pre = resources, !.pre_locked = locked]
        /\ gets' = IF out.got THEN Counted(gets, resource_id) ELSE gets
        /\ UNCHANGED <<files, topic_mappings, user_documents, now, conns>>

\* import_user_document / add_user_document(title, content)
AddUserDocument(title, content) ==
    /\ call = Idle
    /\ \E out \in {AddUserDocumentOutcome(resources, user_documents, locked, title,
                                            content, now)} :
        /\ resources' = out.db
        /\ user_documents' = out.docs
        /\ locked' = out.locked
        /\ call' = [Idle EXCEPT !.op = "add_user_document", !.arg = <<title, content>>,
                       !.result = out.result, !.raised = out.raised,
                       !.pre = resources, !.pre_locked = locked]
        /\ UNCHANGED <<files, topic_mappings, now, gets, conns>>

\* the clock advances
Tick ==
    /\ call = Idle
    /\ now < MaxClock
    /\ now' = now + 1
    /\ UNCHANGED <<files, topic_mappings, resources, user_documents, locked, gets, call, conns>>

\* the garbage collector finalises the discarded connection: its transaction is
\* rolled back and its lock released
Collect ==
    /\ call = Idle
    /\ locked
    /\ locked' = FALSE
    /\ UNCHANGED <<files, topic_mappings, resources, user_documents, now, gets, call, conns>>

\* the call's value has gone to the caller: the server takes the next call
Return ==
    /\ call # Idle
    /\ call' = Idle
    /\ UNCHANGED <<files, topic_mappings, resources, user_documents, locked, now, gets, conns>>

\* search_medical_content, with every answer its adapters may get
DoSearch ==
    /\ call = Idle
    /\ \E a \in SearchArgs :
        \E local \in search_resources(resources, a.query, a.specialty, a.difficulty,
                                      a.content_type, a.max_results) :
            LET remaining == a.max_results - Len(local)
                pubmed_called == remaining > 0 /\ PubmedCount(remaining) > 0
                bookshelf_called == remaining > 0
            IN  \E pubmed_reply \in (IF pubmed_called THEN PubmedReplies ELSE {NoReply}),
                   bookshelf_reply \in (IF bookshelf_called THEN BookshelfReplies
                                        ELSE {NoReply}) :
                 \E gc \in (IF pubmed_called /\ bookshelf_called /\
                                  (locked \/ \E i \in 1..Len(pubmed_reply.items) :
                                                 pubmed_reply.items[i].title = None)
                               THEN BOOLEAN ELSE {FALSE}) :
                    SearchContent(a, local, pubmed_reply, bookshelf_reply, gc)

\* get_resource_content, with every answer its fetch may get
DoDetail ==
    /\ call = Idle
    /\ \E id \in RequestIds :
        \E reply \in (IF CacheHit(GetResourceCall(resources, locked, id))
                         \/ ~(StartsWith(id, PubmedPrefix) \/ StartsWith(id, BookshelfPrefix))
                      THEN {NoFetch} ELSE FetchReplies) :
            Detail(id, reply)

\* the engine, the store beneath it and the import of user documents, at one
\* reading of the clock (SpecStore lets the clock advance)
Next ==
    \/ \E r \in SeedInputs : Put(r)
    \/ \E id \in {P1} : Get(id)
    \/ DoSearch
    \/ \E a \in SearchArgs : SearchUnavailable(a)
    \/ DoDetail
    \/ AddUserDocument(T1, <<"a">>)
    \/ Collect
    \/ Return

Spec == Init /\ [][Next]_vars

\* get_resource_content over every form of id, the store beneath it and the
\* import of user documents
NextDetail ==
    \/ \E r \in DetailSeeds : Put(r)
    \/ DoDetail
    \/ AddUserDocument(T1, <<"a">>)
    \/ Collect
    \/ Return

SpecDetail == Init /\ [][NextDetail]_vars

\* the store alone, called directly
NextStore ==
    \/ \E r \in StoreInputs : Put(r)
    \/ \E id \in StoreIds : Get(id)
    \/ Tick
    \/ Collect
    \/ Return

SpecStore == Init /\ [][NextStore]_vars

-----------------------------------------------------------------------------
(* The store under concurrent callers: each call runs statement by statement  *)
(* on its own connection.  A statement that writes takes the database's write *)
(* lock and keeps it until commit(); a caller that finds the lock held by a   *)
(* running call waits for it (the busy timeout is 5 s), one that finds it     *)
(* held by a discarded connection raises OperationalError.                    *)

\* the caller's connection has a write transaction open
Writer(p) == conns[p].pc \in {"updated", "written", "inserted"}

\* no other running call holds the write lock
WriteLockFree(p) == \A q \in Callers \ {p} : ~Writer(q)

\* the statement raised: commit() and close() are skipped
Raised(c, error) == [c EXCEPT !.pc = "done", !.raised = TRUE, !.error = error]

\* get_resource, lines 113-116: SELECT * FROM resources WHERE id = ?; fetchone().
\* An unknown id returns None at once
GetSelect(p, resource_id) ==
    /\ conns[p].pc = "idle"
    /\ Stored(resources, resource_id) => resources[resource_id].access_count < MaxAccess
    /\ conns' = [conns EXCEPT ![p] =
          IF Stored(resources, resource_id)
          THEN [NoConn EXCEPT !.pc = "selected", !.op = "get", !.arg = resource_id,
                   !.found = TRUE, !.seen = resources[resource_id],
                   !.result = ParsedRow(resources[resource_id])]
          ELSE [NoConn EXCEPT !.pc = "done", !.op = "get", !.arg = resource_id,
                   !.result = NoResource]]
    /\ UNCHANGED <<files, topic_mappings, resources, user_documents, locked, now, gets, call>>

\* (variant, to test the properties) an increment computed from the row the
\* connection SELECTed: a read-modify-write
UpdateStepFromSeen(db, c) ==
    [db EXCEPT ![c.arg] = [@ EXCEPT !.access_count = c.seen.access_count + 1]]

\* lines 118-119 on connection c: SQLite evaluates access_count + 1 on the
\* stored row, under the write lock
UpdateStep(db, c) == get_resource(db, c.arg)

GetUpdate(p) ==
    /\ conns[p].pc = "selected"
    /\ WriteLockFree(p)
    /\ conns' = [conns EXCEPT ![p] =
          IF locked THEN Raised(conns[p], "OperationalError")
          ELSE [conns[p] EXCEPT !.pc = "updated",
                                !.db = UpdateStep(resources, conns[p]),
                                !.docs = user_documents]]
    /\ UNCHANGED <<files, topic_mappings, resources, user_documents, locked, now, gets, call>>

\* lines 120-135: commit(), close(), return dict(row)
GetCommit(p) ==
    /\ conns[p].pc = "updated"
    /\ resources' = conns[p].db
    /\ gets' = Counted(gets, conns[p].arg)
    /\ conns' = [conns EXCEPT ![p].pc = "done"]
    /\ UNCHANGED <<files, topic_mappings, user_documents, locked, now, call>>

\* add_resource, lines 64-65: SELECT id FROM resources WHERE id = ?; fetchone()
PutSelect(p, resource_data) ==
    /\ conns[p].pc = "idle"
    /\ conns' = [conns EXCEPT ![p] =
          IF MissingKey(resource_data)
          THEN Raised([NoConn EXCEPT !.op = "put", !.arg = resource_data], "KeyError")
          ELSE [NoConn EXCEPT !.pc = "checked", !.op = "put", !.arg = resource_data,
                   !.found = Stored(resources, resource_data.id)]]
    /\ UNCHANGED <<files, topic_mappings, resources, user_documents, locked, now, gets, call>>

\* lines 67-103 on connection c: UPDATE when the SELECT found the id, INSERT
\* when it did not.  The INSERT of an id stored since the SELECT violates the
\* PRIMARY KEY; after an IntegrityError the connection keeps its write
\* transaction, and with it the lock, until it is finalised
WriteStep(db, lk, c, t) ==
    IF lk
    THEN [conn |-> Raised(c, "OperationalError"), locked |-> lk]
    ELSE IF NullViolation(c.arg)
    THEN [conn |-> Raised(c, "IntegrityError"), locked |-> TRUE]
    ELSE IF c.found
    THEN [conn |-> [c EXCEPT !.pc = "written",
                       !.db = Upsert(db, c.arg.id, UpdatedRow(db[c.arg.id], c.arg, t))],
          locked |-> FALSE]
    ELSE IF Stored(db, c.arg.id)
    THEN [conn |-> Raised(c, "IntegrityError"), locked |-> TRUE]
    ELSE [conn |-> [c EXCEPT !.pc = "written",
                       !.db = Upsert(db, c.arg.id, InsertedRow(c.arg, t))],
          locked |-> FALSE]

PutWrite(p) ==
    /\ conns[p].pc = "checked"
    /\ WriteLockFree(p)
    /\ \E out \in {WriteStep(resources, locked, conns[p], now)} :
        /\ conns' = [conns EXCEPT ![p] = [out.conn EXCEPT !.docs = user_documents]]
        /\ locked' = out.locked
    /\ UNCHANGED <<files, topic_mappings, resources, user_documents, now, gets, call>>

\* lines 105-106: commit(), close()
PutCommit(p) ==
    /\ conns[p].pc = "written"
    /\ resources' = conns[p].db
    /\ conns' = [conns EXCEPT ![p].pc = "done"]
    /\ UNCHANGED <<files, topic_mappings, user_documents, locked, now, gets, call>>

\* add_user_document, lines 180-188 on connection c: the id is made from the
\* clock and the document INSERTed, not committed
InsertStep(db, docs, lk, c, title, content, t) ==
    IF lk
    THEN [conn |-> Raised(c, "OperationalError"), locked |-> lk]
    ELSE IF UserDocId(t) \in DOMAIN docs
    THEN [conn |-> Raised(c, "IntegrityError"), locked |-> TRUE]
    ELSE [conn |-> [c EXCEPT !.pc = "inserted", !.at = t, !.db = db,
                       !.docs = Upsert(docs, UserDocId(t),
                                       UserDocumentRow(title, content, t))],
          locked |-> FALSE]

DocInsert(p, title, content) ==
    /\ conns[p].pc = "idle"
    /\ WriteLockFree(p)
    /\ \E out \in {InsertStep(resources, user_documents, locked,
                              [NoConn EXCEPT !.op = "add_user_document",
                                             !.arg = <<title, content>>],
                              title, content, now)} :
        /\ conns' = [conns EXCEPT ![p] = out.conn]
        /\ locked' = out.locked
    /\ UNCHANGED <<files, topic_mappings, resources, user_documents, now, gets, call>>

\* lines 191-205: add_resource(resource_data) runs on a second connection and
\* meets the lock of the caller's own INSERT; then commit(), close(), return
DocMirror(p) ==
    /\ conns[p].pc = "inserted"
    /\ \E out \in {AfterMirror(resources, user_documents, conns[p].arg[1],
                               conns[p].arg[2], conns[p].at,
                               AddResourceCall(resources, TRUE,
                                               MirrorResource(conns[p].arg[1],
                                                              conns[p].arg[2],
                                                              conns[p].at), now))} :
        /\ resources' = out.db
        /\ user_documents' = out.docs
        /\ locked' = out.locked
        /\ conns' = [conns EXCEPT ![p] =
              [conns[p] EXCEPT !.pc = "done", !.raised = out.raised,
                               !.result = out.result,
                               !.error = IF out.raised THEN "OperationalError"
                                         ELSE "none"]]
    /\ UNCHANGED <<files, topic_mappings, now, gets, call>>

\* the value, or the exception, has gone to the caller
ConnReturn(p) ==
    /\ conns[p].pc = "done"
    /\ conns' = [conns EXCEPT ![p] = NoConn]
    /\ UNCHANGED <<files, topic_mappings, resources, user_documents, locked, now, gets, call>>

\* what the concurrent callers put
ConcInputs == {CachedArticle, BareArticle}

NextConc ==
    \/ \E p \in Callers : GetSelect(p, P1)
    \/ \E p \in Callers : GetUpdate(p)
    \/ \E p \in Callers : GetCommit(p)
    \/ \E p \in Callers, r \in ConcInputs : PutSelect(p, r)
    \/ \E p \in Callers : PutWrite(p)
    \/ \E p \in Callers : PutCommit(p)
    \/ \E p \in Callers, title \in {T1, T2} : DocInsert(p, title, <<"a">>)
    \/ \E p \in Callers : DocMirror(p)
    \/ \E p \in Callers : ConnReturn(p)
    \/ Tick
    \/ Collect

SpecConc == Init /\ [][NextConc]_vars

-----------------------------------------------------------------------------
(* search_medical_content step by step: the engine calls an adapter, which     *)
(* calls requests.get(url) with no timeout argument, and goes on when the      *)
(* adapter has returned.                                                      *)

\* a search in progress: local is what search_resources returned, pub what the
\* PubMed phase came to
SearchConn(pc, a, local, pub) ==
    [pc |-> pc, op |-> "search", arg |-> a, local |-> local, pub |-> pub,
     pubmed_reply |-> NoReply, bookshelf_reply |-> NoReply, result |-> <<>>,
     raised |-> FALSE]

\* lines 56-79: the local search, the short circuit and the allocation
LocalSearch(p, a, local) ==
    /\ conns[p].pc = "idle"
    /\ conns' = [conns EXCEPT ![p] =
          IF Len(local) >= a.max_results
          THEN [SearchConn("done", a, local,
                           AdapterPhase(EmptyTable, FALSE, 0, <<>>, FALSE, now))
                   EXCEPT !.result = local]
          ELSE IF PubmedCount(a.max_results - Len(local)) > 0
          THEN SearchConn("search_pubmed", a, local,
                          AdapterPhase(EmptyTable, FALSE, 0, <<>>, FALSE, now))
          ELSE SearchConn("search_bookshelf", a, local,
                          AdapterPhase(EmptyTable, FALSE, 0, <<>>, FALSE, now))]
    /\ UNCHANGED <<files, topic_mappings, resources, user_documents, locked, now, gets, call>>

\* search_pubmed's requests.get calls return, or raise: PubMed answered
PubmedReturns(p, reply) ==
    /\ conns[p].pc = "search_pubmed"
    /\ conns' = [conns EXCEPT ![p].pc = "store_pubmed", ![p].pubmed_reply = reply]
    /\ UNCHANGED <<files, topic_mappings, resources, user_documents, locked, now, gets, call>>

\* lines 84-91: the PubMed results are stored, or the except branch runs
StorePubmed(p) ==
    /\ conns[p].pc = "store_pubmed"
    /\ \E pub \in {AdapterPhase(resources, locked,
                                PubmedCount(conns[p].arg.max_results
                                            - Len(conns[p].local)),
                                search_pubmed(conns[p].pubmed_reply), FALSE, now)} :
        /\ resources' = pub.db
        /\ locked' = pub.locked
        /\ conns' = [conns EXCEPT ![p].pc = "search_bookshelf",
                                  ![p].pub = [pub EXCEPT !.db = EmptyTable]]
    /\ UNCHANGED <<files, topic_mappings, user_documents, now, gets, call>>

\* search_bookshelf's requests.get calls return, or raise: Bookshelf answered
BookshelfReturns(p, reply) ==
    /\ conns[p].pc = "search_bookshelf"
    /\ conns' = [conns EXCEPT ![p].pc = "store_bookshelf", ![p].bookshelf_reply = reply]
    /\ UNCHANGED <<files, topic_mappings, resources, user_documents, locked, now, gets, call>>

\* lines 99-110: the Bookshelf results are stored, or the except branch runs;
\* the lists are combined and returned
StoreBookshelf(p) ==
    /\ conns[p].pc = "store_bookshelf"
    /\ \E book \in {AdapterPhase(resources, locked,
                                 BookshelfCount(conns[p].arg.max_results
                                                - Len(conns[p].local)),
                                 search_bookshelf(conns[p].bookshelf_reply), FALSE,
                                 now)} :
        /\ resources' = book.db
        /\ locked' = book.locked
        /\ conns' = [conns EXCEPT ![p].pc = "done",
                                  ![p].result =
                                      Combine(conns[p].arg, conns[p].local,
                                              conns[p].pubmed_reply,
                                              conns[p].bookshelf_reply,
                                              conns[p].pub, book).result]
    /\ UNCHANGED <<files, topic_mappings, user_documents, now, gets, call>>

\* search_medical_content is called, with every list its local search may return
StartSearch(p) ==
    \E a \in SearchArgs :
        \E local \in search_resources(resources, a.query, a.specialty, a.difficulty,
                                      a.content_type, a.max_results) :
            LocalSearch(p, a, local)

\* search_medical_content called by one caller, with every answer, or none, of
\* its adapters; the store is written to beside it
NextLive ==
    \/ \E r \in SeedInputs : Put(r)
    \/ Return
    \/ Collect
    \/ StartSearch(1)
    \/ \E reply \in PubmedReplies : PubmedReturns(1, reply)
    \/ StorePubmed(1)
    \/ \E reply \in BookshelfReplies : BookshelfReturns(1, reply)
    \/ StoreBookshelf(1)
    \/ ConnReturn(1)

\* The engine runs on: a step of its own that can be taken is taken.  Nothing
\* makes requests.get return: PubmedReturns and BookshelfReturns are not fair.
SpecLive ==
    /\ Init
    /\ [][NextLive]_vars
    /\ WF_vars(StorePubmed(1))
    /\ WF_vars(StoreBookshelf(1))
    /\ WF_vars(ConnReturn(1))

-----------------------------------------------------------------------------
(* The store searched directly *)

\* what is put into the store that is searched
SearchSeeds == {CachedArticle, BareArticle, TestResource}

\* the arguments of search_resources
StoreSearchArgs ==
    [query : {<<>>, T1, <<"_">>}, specialty : {None, Cardiology}, difficulty : {None},
     content_type : {None, Article}, limit : (-1)..MaxResults]

\* database.search_resources(query, specialty, difficulty, content_type, limit):
\* it only reads, which a write lock held elsewhere does not hinder
StoreSearch(a) ==
    /\ call = Idle
    /\ \E found \in search_resources(resources, a.query, a.specialty, a.difficulty,
                                      a.content_type, a.limit) :
        call' = [Idle EXCEPT !.op = "search_resources", !.arg = a, !.result = found,
                    !.pre = resources, !.pre_locked = locked]
    /\ UNCHANGED <<files, topic_mappings, resources, user_documents, locked, now, gets, conns>>

NextSearch ==
    \/ \E r \in SearchSeeds : Put(r)
    \/ \E id \in StoreIds : Get(id)
    \/ \E a \in StoreSearchArgs : StoreSearch(a)
    \/ Return

SpecSearch == Init /\ [][NextSearch]_vars

\* every operation on the resources table: put, get, search, search_content and
\* get_resource_content
NextResources ==
    \/ \E r \in SeedInputs : Put(r)
    \/ \E id \in {P1} : Get(id)
    \/ \E a \in StoreSearchArgs : StoreSearch(a)
    \/ DoSearch
    \/ DoDetail
    \/ Collect
    \/ Return

SpecResources == Init /\ [][NextResources]_vars

\* the test resource with each kind of value as its cached_content
WithContent(content) == [TestResource EXCEPT !.cached_content = content]

\* what is put to be read back
RoundTripInputs ==
    {CachedArticle, BareArticle, BareTest, TestResource,
     WithContent(PyNone), WithContent(EmptyDict), WithContent(PyStr(<<>>)),
     WithContent(PyStr(T1)), WithContent(ContentDict(T1))}

\* records put and read back
NextRoundTrip ==
    \/ \E r \in RoundTripInputs : Put(r)
    \/ \E id \in StoreIds : Get(id)
    \/ Return

SpecRoundTrip == Init /\ [][NextRoundTrip]_vars

-----------------------------------------------------------------------------
(* TopicGraph: add_topic_mapping and get_related_topics *)

\* a NULL parent_topic
Null == None

\* The table maps a key <<topic, parent_topic>> to the rows stored under it,
\* each row being its annotations [specialty, description]

\* the columns of one row
Annotation(specialty, description) == [specialty |-> specialty, description |-> description]

\* the rows of the table: <<key, i>> is the i-th row stored under key
Rows(tm) == UNION {{<<k, i>> : i \in 1..Len(tm[k])} : k \in DOMAIN tm}

TopicOf(row) == row[1][1]

ParentOf(row) == row[1][2]

\* INSERT OR REPLACE INTO topic_mappings: a row whose PRIMARY KEY (topic,
\* parent_topic) equals the new row's is deleted first; SQLite holds NULLs to be
\* distinct in a PRIMARY KEY, so a row with a NULL parent_topic equals no other
add_topic_mapping(tm, topic, parent_topic, specialty, description) ==
    IF parent_topic # Null \/ ~Stored(tm, <<topic, parent_topic>>)
    THEN Upsert(tm, <<topic, parent_topic>>, <<Annotation(specialty, description)>>)
    ELSE Upsert(tm, <<topic, parent_topic>>,
                Append(tm[<<topic, parent_topic>>], Annotation(specialty, description)))

\* the orders in which a SELECT without ORDER BY may return the rows S
RECURSIVE RowOrders(_)
RowOrders(S) ==
    IF S = {} THEN {<<>>}
    ELSE UNION {{<<r>> \o o : o \in RowOrders(S \ {r})} : r \in S}

\* SELECT parent_topic FROM topic_mappings WHERE topic = ?
ParentRows(tm, topic) == {r \in Rows(tm) : TopicOf(r) = topic}

\* SELECT topic FROM topic_mappings WHERE parent_topic = ?
ChildRows(tm, topic) == {r \in Rows(tm) : ParentOf(r) # Null /\ ParentOf(r) = topic}

\* FROM topic_mappings tm1 JOIN topic_mappings tm2 ON tm1.parent_topic = tm2.parent_topic
\* WHERE tm1.topic = ? AND tm2.topic != ?  (NULL equals nothing)
JoinRows(tm, topic) ==
    {j \in Rows(tm) \X Rows(tm) :
        /\ TopicOf(j[1]) = topic
        /\ ParentOf(j[1]) # Null
        /\ ParentOf(j[2]) # Null
        /\ ParentOf(j[1]) = ParentOf(j[2])
        /\ TopicOf(j[2]) # topic}

IsTruthyParent(parent_topic) == TruthyText(parent_topic)

\* (variant, to test the properties) the parents and the parents' parents
AncestorsIn(tm, rows) ==
    SelectSeq([k \in 1..Len(rows) |-> ParentOf(rows[k])], IsTruthyParent)
    \o (IF \E r \in Rows(tm) : \E k \in 1..Len(rows) :
              TopicOf(r) = ParentOf(rows[k]) /\ TruthyText(ParentOf(r))
        THEN LET r == CHOOSE r \in Rows(tm) : \E k \in 1..Len(rows) :
                        TopicOf(r) = ParentOf(rows[k]) /\ TruthyText(ParentOf(r))
             IN  <<ParentOf(r)>>
        ELSE <<>>)

\* parents = [row['parent_topic'] for row in c.fetchall() if row['parent_topic']]
ParentsIn(tm, rows) ==
    SelectSeq([k \in 1..Len(rows) |-> ParentOf(rows[k])], IsTruthyParent)

\* children = [row['topic'] for row in c.fetchall() if row['topic'] != topic]
ChildrenIn(rows, topic) ==
    LET NotSelf(child) == child # topic
    IN  SelectSeq([k \in 1..Len(rows) |-> TopicOf(rows[k])], NotSelf)

\* (variant, to test the properties) the sibling query without its LIMIT
SiblingsUnlimited(joined, limit) ==
    [k \in 1..Len(joined) |-> TopicOf(joined[k][2])]

\* siblings = [row['topic'] for row in c.fetchall()], the query ending in LIMIT ?
SiblingsIn(joined, limit) ==
    [k \in 1..Len(Limited(joined, limit)) |-> TopicOf(joined[k][2])]

\* list(dict.fromkeys(related)): the first occurrence of each entry, in order
RECURSIVE Dedup(_)
Dedup(seq) ==
    IF seq = <<>> THEN <<>>
    ELSE LET NotHead(x) == x # Head(seq)
         IN  <<Head(seq)>> \o Dedup(SelectSeq(Tail(seq), NotHead))

\* (variant, to test the properties) children merged before parents
RelatedChildrenFirst(parents, children, siblings, limit) ==
    Slice(Dedup(children \o parents \o siblings), limit)

\* lines 259-265: related = parents + children + siblings, deduplicated, [:limit]
Related(parents, children, siblings, limit) ==
    Slice(Dedup(parents \o children \o siblings), limit)

\* get_related_topics, its three lists being these
RelatedOutcome(parents, children, siblings, limit) ==
    [parents |-> parents, children |-> children, siblings |-> siblings,
     result |-> Related(parents, children, siblings, limit)]

\* get_related_topics(topic, limit): what it may come to, each SELECT returning
\* its rows in some order
get_related_topics(tm, topic, limit) ==
    {RelatedOutcome(parents, children, siblings, limit) :
        parents \in {ParentsIn(tm, rows) : rows \in RowOrders(ParentRows(tm, topic))},
        children \in {ChildrenIn(rows, topic) : rows \in RowOrders(ChildRows(tm, topic))},
        siblings \in {SiblingsIn(joined, limit) : joined \in RowOrders(JoinRows(tm, topic))}}

\* topic labels
TopicT == <<"t">>
TopicP == <<"p">>
TopicQ == <<"q">>
TopicS == <<"s">>
TopicG == <<"g">>

\* the edges added: t under p, under '' and under NULL; p under '', under itself
\* and under g; q and s under ''
TopicEdges ==
    {[topic |-> TopicT, parent_topic |-> <<>>, specialty |-> None],
     [topic |-> TopicT, parent_topic |-> TopicP, specialty |-> None],
     [topic |-> TopicT, parent_topic |-> TopicP, specialty |-> Cardiology],
     [topic |-> TopicT, parent_topic |-> Null, specialty |-> None],
     [topic |-> TopicT, parent_topic |-> Null, specialty |-> Cardiology],
     [topic |-> TopicP, parent_topic |-> <<>>, specialty |-> None],
     [topic |-> TopicP, parent_topic |-> TopicP, specialty |-> None],
     [topic |-> TopicP, parent_topic |-> TopicG, specialty |-> None],
     [topic |-> TopicQ, parent_topic |-> <<>>, specialty |-> None],
     [topic |-> TopicS, parent_topic |-> <<>>, specialty |-> None]}

\* the topics asked about
AskedTopics == {TopicT, TopicP}

\* database.add_topic_mapping(topic, parent_topic, specialty, description); with
\* the write lock held elsewhere the INSERT raises and nothing is stored
AddTopicMapping(topic, parent_topic, specialty, description) ==
    /\ call = Idle
    /\ Stored(topic_mappings, <<topic, parent_topic>>)
       => Len(topic_mappings[<<topic, parent_topic>>]) < MaxRows
    /\ topic_mappings' =
         IF locked THEN topic_mappings
         ELSE add_topic_mapping(topic_mappings, topic, parent_topic, specialty, description)
    /\ UNCHANGED <<files, resources, user_documents, locked, now, gets, call, conns>>

\* database.get_related_topics(topic, limit)
GetRelated(topic, limit) ==
    /\ call = Idle
    /\ \E out \in get_related_topics(topic_mappings, topic, limit) :
        call' = [Idle EXCEPT !.op = "get_related_topics",
                    !.arg = [topic |-> topic, limit |-> limit],
                    !.result = out.result, !.parents = out.parents,
                    !.children = out.children, !.siblings = out.siblings]
    /\ UNCHANGED <<files, topic_mappings, resources, user_documents, locked, now, gets, conns>>

NextTopics ==
    \/ \E e \in TopicEdges : AddTopicMapping(e.topic, e.parent_topic, e.specialty, None)
    \/ \E topic \in AskedTopics, limit \in 0..MaxResults : GetRelated(topic, limit)
    \/ Return

SpecTopics == Init /\ [][NextTopics]_vars

-----------------------------------------------------------------------------
(* backup_utils: restore_backup *)

\* What a file holds: nothing ("absent": there is no such file), a database
\* with the three tables ("db1", "db2"), a database without them ("no_tables"),
\* or bytes that are no database ("garbage")
Contents == {"absent", "db1", "db2", "no_tables", "garbage"}

\* How shutil.copy2(backup_path, target_path) ends: it copies, or it raises
\* before it has opened the target, or it raises after it has written a part
CopyEnds == {"copied", "denied", "partial"}

\* the value restore_backup returns, with the files as it leaves them
Restored(fs, returned) == [files |-> fs, returned |-> returned]

\* `if os.path.exists(temp_path): shutil.copy2(temp_path, target_path)` and
\* return False (lines 115-118, 133-137).  temp_path is assigned only when the
\* target existed (lines 92-93): otherwise reading it raises UnboundLocalError,
\* which the outer except turns into False (lines 139-141), the files left as
\* they are
Rollback(fs, bound) ==
    IF bound /\ fs.temp # "absent"
    THEN Restored([fs EXCEPT !.target = fs.temp], FALSE)
    ELSE Restored(fs, FALSE)

\* lines 120-126: close, remove the temporary copy, return True; without a
\* temp_path the test of line 123 raises inside the inner try, and its handler
\* (lines 129-137) goes the way of Rollback
Finish(fs, bound) ==
    IF bound
    THEN Restored([fs EXCEPT !.temp = "absent"], TRUE)
    ELSE Rollback(fs, bound)

\* lines 100-118: connect to the restored target, list its tables; a file that
\* is no database raises DatabaseError, one without the tables is rolled back
Validate(fs, bound) ==
    IF fs.target \in {"garbage", "no_tables"}
    THEN Rollback(fs, bound)
    ELSE Finish(fs, bound)

\* lines 96-98: shutil.copy2(backup_path, target_path)
CopyBackup(fs, bound, copy) ==
    IF copy = "denied" THEN Rollback(fs, bound)
    ELSE IF copy = "partial" THEN Rollback([fs EXCEPT !.target = "garbage"], bound)
    ELSE Validate([fs EXCEPT !.target = fs.backup], bound)

\* restore_backup(backup_path, target_path)
restore_backup(fs, copy) ==
    IF fs.backup = "absent" THEN Restored(fs, FALSE)
    ELSE IF fs.target # "absent"
         THEN CopyBackup([fs EXCEPT !.temp = fs.target], TRUE, copy)
         ELSE CopyBackup(fs, FALSE, copy)

\* the database file is created or changed by the server, or a file is put
\* where a backup is looked for
WriteFile(path, content) ==
    /\ call = Idle
    /\ files[path] # content
    /\ files' = [files EXCEPT ![path] = content]
    /\ UNCHANGED <<resources, user_documents, locked, now, gets, call, topic_mappings, conns>>

\* create_backup(db_path, backup_dir): shutil.copy2(db_path, backup_path), when
\* the database file exists
CreateBackup ==
    /\ call = Idle
    /\ files.target # "absent"
    /\ files' = [files EXCEPT !.backup = files.target]
    /\ UNCHANGED <<resources, user_documents, locked, now, gets, call, topic_mappings, conns>>

RestoreBackup(copy) ==
    /\ call = Idle
    /\ \E out \in {restore_backup(files, copy)} :
        /\ files' = out.files
        /\ call' = [Idle EXCEPT !.op = "restore_backup",
                       !.arg = [files |-> files, copy |-> copy],
                       !.result = [returned |-> out.returned]]
    /\ UNCHANGED <<resources, user_documents, locked, now, gets, topic_mappings, conns>>

NextBackup ==
    \/ \E content \in {"db1", "db2"} : WriteFile("target", content)
    \/ \E content \in Contents : WriteFile("backup", content)
    \/ CreateBackup
    \/ \E copy \in CopyEnds : RestoreBackup(copy)
    \/ Return

SpecBackup == Init /\ [][NextBackup]_vars

-----------------------------------------------------------------------------
(* What the claims speak of *)

\* the columns of a row that add_resource binds from the record it is given
RecordColumns ==
    {"title", "source_type", "specialty", "difficulty", "content_type", "source_id",
     "cached_content"}

\* the row stored under rec's id holds the columns add_resource binds from rec
HoldsRecord(db, rec) ==
    /\ Stored(db, rec.id)
    /\ db[rec.id].id = rec.id
    /\ db[rec.id].title = rec.title
    /\ db[rec.id].source_type = rec.source_type
    /\ db[rec.id].specialty = DictGet(rec, "specialty")
    /\ db[rec.id].difficulty = DictGet(rec, "difficulty")
    /\ db[rec.id].content_type = DictGet(rec, "content_type")
    /\ db[rec.id].source_id = DictGet(rec, "source_id")
    /\ db[rec.id].cached_content =
           Dumps(IF "cached_content" \in DOMAIN rec THEN rec.cached_content ELSE EmptyDict)

\* the records the five adapter functions build for the sources' titled answers
AdapterRecords ==
    {PubmedSearchRecord(<<"1">>, T1), PubmedSearchRecord(<<"2">>, T1),
     PubmedArticleRecord(<<"1">>, T1), BookshelfSearchRecord(<<"B">>, T1),
     BookRecord(<<"B">>, T1), ChapterRecord(<<"B">>, <<"C">>, T1)}

\* how many stored rows satisfy the WHERE clause of a search
MatchCount(db, a) ==
    Cardinality({i \in DOMAIN db :
                    Matches(db[i], a.query, a.specialty, a.difficulty, a.content_type)})

\* db and pre hold the same rows, but for the access_count of id
SameButCount(db, pre, id) ==
    /\ DOMAIN db = DOMAIN pre
    /\ \A i \in DOMAIN pre :
          \/ db[i] = pre[i]
          \/ i = id /\ db[i] = [pre[i] EXCEPT !.access_count = db[i].access_count]

-----------------------------------------------------------------------------
(* C1 *)

\* C1 (as the spec states it): when the store is available and holds, under the
\* requested id, a record that an adapter produced and add_resource stored,
\* get_resource_content returns through the cache-hit path and calls no adapter.
C1_StoredAdapterRecordHitsCache ==
    (/\ call.op = "detail"
     /\ ~call.pre_locked
     /\ \E rec \in AdapterRecords : rec.id = call.arg /\ HoldsRecord(call.pre, rec))
    => (call.path = "hit" /\ call.adapters = <<>>)

-----------------------------------------------------------------------------
(* C2 *)

\* C2: when the store holds at least max_results rows matching the query and the
\* filters, search_medical_content calls no adapter and stores nothing, and,
\* its local search having returned, hands back exactly that local list, which
\* is one of the lists search_resources may return for the store.
C2_ShortCircuit ==
    (call.op = "search" /\ MatchCount(call.pre, call.arg) >= call.arg.max_results)
    => /\ call.adapters = <<>>
       /\ call.puts = <<>>
       /\ resources = call.pre
       /\ call.path # "exception" =>
             /\ call.result = call.local_results
             /\ call.result \in search_resources(call.pre, call.arg.query,
                                                 call.arg.specialty, call.arg.difficulty,
                                                 call.arg.content_type,
                                                 call.arg.max_results)

\* a search for one record over a store that holds two matching rows has returned
C2_Witness ==
    /\ call.op = "search"
    /\ call.path # "exception"
    /\ call.arg.max_results = 1
    /\ MatchCount(call.pre, call.arg) >= 2
    /\ Len(call.result) = 1

-----------------------------------------------------------------------------
(* C3 *)

\* C3: when the store holds the requested id with non-empty cached_content,
\* get_resource_content calls no adapter and stores nothing (the rows stay as
\* they were, but for the id's access_count); and when the store's write lock is
\* free as the call starts, it returns the stored record as get_resource reads
\* it.  (With the lock held by a discarded connection, get_resource raises and
\* the call returns the failure value of its outer except branch.)
C3_CacheHit ==
    (/\ call.op = "detail"
     /\ Stored(call.pre, call.arg)
     /\ Truthy(ParsedRow(call.pre[call.arg]).cached_content))
    => /\ call.adapters = <<>>
       /\ call.puts = <<>>
       /\ SameButCount(resources, call.pre, call.arg)
       /\ ~call.pre_locked => call.result = ParsedRow(call.pre[call.arg])
       /\ call.pre_locked => call.result = DetailFailed

\* a detail call has returned the stored record with its content
C3_Witness ==
    /\ call.op = "detail"
    /\ ~call.pre_locked
    /\ Stored(call.pre, call.arg)
    /\ Truthy(ParsedRow(call.pre[call.arg]).cached_content)
    /\ call.result = ParsedRow(call.pre[call.arg])
    /\ call.result.cached_content = ContentDict(T1)

-----------------------------------------------------------------------------
(* C4 *)

\* C4: when the detail-fetch that get_resource_content calls returns an error
\* value, the call returns that error value and stores nothing: no row is
\* inserted and no row changes but for the access_count of the requested id.
C4_FetchFailurePersistsNothing ==
    (/\ call.op = "detail"
     /\ call.adapters # <<>>
     /\ "error" \in DOMAIN call.adapters[1].returned)
    => /\ "error" \in DOMAIN call.result
       /\ call.result = call.adapters[1].returned
       /\ call.puts = <<>>
       /\ SameButCount(resources, call.pre, call.arg)

\* a fetch for a stored id without content has failed
C4_Witness ==
    /\ call.op = "detail"
    /\ call.adapters # <<>>
    /\ "error" \in DOMAIN call.adapters[1].returned
    /\ Stored(call.pre, call.arg)
    /\ "error" \in DOMAIN call.result

-----------------------------------------------------------------------------
(* C5 *)

\* C5: when search_medical_content returns, the store holds, for every entry of
\* the result that came from an adapter (the entries after the local ones), a
\* row under the entry's id with the entry's columns.
C5_WriteThrough ==
    (call.op = "search" /\ call.path # "exception")
    => \A k \in (Len(call.local_results) + 1)..Len(call.result) :
          HoldsRecord(resources, call.result[k])

\* a search has returned two or more adapter records after one adapter phase failed
C5_Witness ==
    /\ call.op = "search"
    /\ call.path # "exception"
    /\ Len(call.result) >= Len(call.local_results) + 2
    /\ call.bookshelf_failed

-----------------------------------------------------------------------------
(* C6 *)

\* C6 (as the spec states it): in a search that starts with the store available
\* and calls both adapters, when one adapter's search fails and the other
\* returns records, the result is the local list followed by the other
\* adapter's records, cut to max_results.
C6_AdapterIsolation ==
    (call.op = "search" /\ ~call.pre_locked /\ Len(call.adapters) = 2)
    => /\ (/\ ~call.adapters[1].reply.ok
           /\ call.adapters[2].reply.ok
           /\ call.adapters[2].reply.items # <<>>)
          => call.result = Slice(call.local_results \o
                                     search_bookshelf(call.adapters[2].reply),
                                 call.arg.max_results)
       /\ (/\ ~call.adapters[2].reply.ok
           /\ call.adapters[1].reply.ok
           /\ call.adapters[1].reply.items # <<>>)
          => call.result = Slice(call.local_results \o
                                     search_pubmed(call.adapters[1].reply),
                                 call.arg.max_results)

-----------------------------------------------------------------------------
(* C7 *)

\* C7 (as the spec states it): the list search_medical_content returns has at
\* most max_results entries, for every max_results and on every path.
C7_AtMostMaxResults ==
    call.op = "search" => Len(call.result) <= call.arg.max_results

\* C7 (amended): for max_results >= 1 the returned list has at most max_results
\* entries on every path, the failure path with its one error entry included;
\* for max_results = 0 it is empty, or the one-entry failure list; for a
\* negative max_results it is the failure list or holds every matching row.
C7_AtMostMaxResultsWhenPositive ==
    call.op = "search"
    => /\ call.arg.max_results >= 1 => Len(call.result) <= call.arg.max_results
       /\ call.arg.max_results = 0 => call.result \in {<<>>, SearchFailed}
       /\ call.arg.max_results < 0 =>
             \/ call.result = SearchFailed
             \/ Len(call.result) = MatchCount(call.pre, call.arg)

\* a fan-out search whose local and adapter records outnumbered max_results has
\* returned max_results entries
C7_Witness ==
    /\ call.op = "search"
    /\ call.arg.max_results >= 1
    /\ Len(call.adapters) = 2
    /\ Len(call.local_results) + Len(call.puts) > call.arg.max_results
    /\ Len(call.result) = call.arg.max_results

-----------------------------------------------------------------------------
(* C8 *)

\* C8: a call of add_resource that returns leaves every other row as it was and
\* leaves one row under the record's id that holds the record's title,
\* source_type, specialty, difficulty, content_type, source_id and serialised
\* cached_content, the time of the call as last_updated, and as access_count 0
\* when the id was absent and the stored count when it was present.
C8_Upsert ==
    (call.op = "put" /\ ~call.raised)
    => /\ DOMAIN resources = DOMAIN call.pre \cup {call.arg.id}
       /\ \A i \in DOMAIN call.pre : i # call.arg.id => resources[i] = call.pre[i]
       /\ HoldsRecord(resources, call.arg)
       /\ DOMAIN resources[call.arg.id] = RecordColumns \cup {"id", "last_updated",
                                                                "access_count"}
       /\ resources[call.arg.id].last_updated = now
       /\ resources[call.arg.id].access_count =
              IF Stored(call.pre, call.arg.id) THEN call.pre[call.arg.id].access_count
              ELSE 0

\* a row that had been read and was stored at an earlier time has been replaced
\* by a record with another title
C8_Witness ==
    /\ call.op = "put"
    /\ ~call.raised
    /\ Stored(call.pre, call.arg.id)
    /\ call.pre[call.arg.id].access_count >= 1
    /\ call.pre[call.arg.id].title # call.arg.title
    /\ call.pre[call.arg.id].last_updated < now

-----------------------------------------------------------------------------
(* C9 *)

\* C9: add_resource called with a record whose columns the store already holds
\* under that id (a second put with identical fields) leaves the same ids
\* stored, one row under the record's id, with that id and with the
\* access_count it had, whether the call returns or raises.
C9_IdempotentPut ==
    (call.op = "put" /\ HoldsRecord(call.pre, call.arg))
    => /\ DOMAIN resources = DOMAIN call.pre
       /\ Cardinality({i \in DOMAIN resources : resources[i].id = call.arg.id}) = 1
       /\ resources[call.arg.id].id = call.arg.id
       /\ resources[call.arg.id].access_count = call.pre[call.arg.id].access_count
       /\ HoldsRecord(resources, call.arg)

\* a record has been put a second time over its own row, which had been read
C9_Witness ==
    /\ call.op = "put"
    /\ ~call.raised
    /\ HoldsRecord(call.pre, call.arg)
    /\ call.pre[call.arg.id].access_count >= 1
    /\ call.arg = TestResource

-----------------------------------------------------------------------------
(* C10 *)

\* C10: a call of get_resource on a stored id that returns hands back the row as
\* stored and leaves the table as it was but for that row's access_count, which
\* is one higher; every row's access_count is the number of get_resource calls
\* that found it and returned (N calls after the insert leave N); and a call on
\* an id that is not stored returns None, does not raise and leaves the table as
\* it was.
C10_GetCounts ==
    /\ \A id \in DOMAIN resources : resources[id].access_count = GetsOf(gets, id)
    /\ (call.op = "get" /\ Stored(call.pre, call.arg) /\ ~call.raised)
       => /\ call.result = ParsedRow(call.pre[call.arg])
          /\ resources = [call.pre EXCEPT ![call.arg].access_count = @ + 1]
    /\ (call.op = "get" /\ ~Stored(call.pre, call.arg))
       => /\ ~call.raised
          /\ call.result = NoResource
          /\ resources = call.pre

\* the second get_resource on a row has returned: its access_count is 2
C10_Witness ==
    /\ call.op = "get"
    /\ ~call.raised
    /\ Stored(call.pre, call.arg)
    /\ call.pre[call.arg].access_count = 1
    /\ resources[call.arg].access_count = 2
    /\ GetsOf(gets, call.arg) = 2

-----------------------------------------------------------------------------
(* Concurrent callers of the store *)

\* C11: under every interleaving of the statements of concurrent get_resource
\* calls on one id, and of add_resource calls on it, no increment is lost: every
\* row's access_count is the number of get_resource calls that found the row and
\* have completed, and an increment not yet committed is one above the stored
\* count, whatever count its connection SELECTed.
C11_NoLostIncrement ==
    /\ \A id \in DOMAIN resources : resources[id].access_count = GetsOf(gets, id)
    /\ \A p \in Callers :
        conns[p].pc = "updated"
        => conns[p].db[conns[p].arg].access_count
           = resources[conns[p].arg].access_count + 1

\* a get_resource call SELECTed the row with access_count 0; before its UPDATE
\* the other caller completed a get_resource and then an add_resource on the
\* id; the call has completed and the stored count is 2
C11_Witness ==
    \E p \in Callers, q \in Callers :
        /\ conns[p].op = "get"
        /\ conns[p].pc = "done"
        /\ ~conns[p].raised
        /\ conns[p].found
        /\ conns[p].seen.access_count = 0
        /\ conns[p].seen.title = T2
        /\ conns[q].op = "put"
        /\ conns[q].pc = "done"
        /\ ~conns[q].raised
        /\ Stored(resources, P1)
        /\ resources[P1].title = T1
        /\ resources[P1].access_count = 2

\* C12: add_resource is atomic under concurrent callers: a call whose SELECT
\* found the id absent, and which did not meet the lock of a discarded
\* connection, returns without raising, whatever the other caller did between
\* its SELECT and its INSERT, and the record is stored afterwards.
C12_AtomicPut ==
    \A p \in Callers :
        (/\ conns[p].op = "put"
         /\ conns[p].pc = "done"
         /\ ~conns[p].found
         /\ conns[p].error # "OperationalError")
        => /\ ~conns[p].raised
           /\ Stored(resources, conns[p].arg.id)

\* the tables db and docs hold every user document with its mirror: the ids of
\* docs are those of the resources of content_type document, with the same title
MirrorConsistent(db, docs) ==
    /\ \A doc_id \in DOMAIN docs :
        /\ Stored(db, doc_id)
        /\ db[doc_id].title = docs[doc_id].title
        /\ db[doc_id].content_type = <<"document">>
    /\ \A id \in DOMAIN db :
        db[id].content_type = <<"document">> => id \in DOMAIN docs

\* C13: the user_documents table and its mirror in the resources table are
\* consistent in every reachable state: in the committed tables, which a
\* concurrent reader sees, and in the tables as a connection with an open write
\* transaction has them between the statements of its call.
C13_MirrorConsistent ==
    /\ MirrorConsistent(resources, user_documents)
    /\ \A p \in Callers :
        Writer(p) => MirrorConsistent(conns[p].db, conns[p].docs)

-----------------------------------------------------------------------------
(* User documents *)

\* get_user_document(doc_id): dict(row), or None
get_user_document(docs, doc_id) ==
    IF doc_id \in DOMAIN docs THEN docs[doc_id] ELSE NoResource

\* C14: add_user_document(title, content) completes and returns an id for which
\* get_user_document then returns a document with that title and that content.
C14_UploadThenRead ==
    call.op = "add_user_document"
    => /\ ~call.raised
       /\ get_user_document(user_documents, call.result) # NoResource
       /\ get_user_document(user_documents, call.result).title = call.arg[1]
       /\ get_user_document(user_documents, call.result).content = call.arg[2]

\* C15: two add_user_document calls that have completed both returned an id
\* with the user-doc- prefix, the two ids differ, and both documents are
\* stored, whether or not the clock advanced between the two calls.
C15_DistinctIds ==
    \A p \in Callers, q \in Callers :
        (/\ p # q
         /\ conns[p].op = "add_user_document" /\ conns[p].pc = "done"
         /\ conns[q].op = "add_user_document" /\ conns[q].pc = "done")
        => /\ ~conns[p].raised /\ ~conns[q].raised
           /\ StartsWith(conns[p].result, UserDocPrefix)
           /\ StartsWith(conns[q].result, UserDocPrefix)
           /\ conns[p].result # conns[q].result
           /\ get_user_document(user_documents, conns[p].result) # NoResource
           /\ get_user_document(user_documents, conns[q].result) # NoResource

-----------------------------------------------------------------------------
(* The engine's failures *)

\* C16: search_medical_content always eventually returns, also when an
\* adapter's search never answers: a search in progress leads to the search
\* having returned its list.
C16_SearchReturns ==
    (conns[1].op = "search") ~> (conns[1].op = "search" /\ conns[1].pc = "done")

\* C17: a storage failure during search_medical_content is reported to the
\* caller: when the store cannot be read, or when the write lock is held by a
\* discarded connection and the write-through of the PubMed results raises,
\* the returned list carries an error entry.
C17_StorageFailureReported ==
    (/\ call.op = "search"
     /\ \/ call.path = "exception"
        \/ call.pre_locked /\ call.pubmed_failed)
    => \E i \in 1..Len(call.result) : "error" \in DOMAIN call.result[i]

\* C18: get_resource_content never raises and swallows no failure: when the
\* adapter it called returned an error value, the caller receives that value;
\* when the id has the user-doc- prefix and neither a resource nor a user
\* document of that id is stored, the caller receives the not-found error
\* value; and when the store raised, the caller receives an error value.
C18_DetailFailuresSurfaced ==
    call.op = "detail"
    => /\ ~call.raised
       /\ (call.adapters # <<>> /\ "error" \in DOMAIN call.adapters[1].returned)
          => call.result = call.adapters[1].returned
       /\ (/\ StartsWith(call.arg, UserDocPrefix)
           /\ ~Stored(call.pre, call.arg)
           /\ get_user_document(user_documents, call.arg) = NoResource)
          => call.result = UserDocumentNotFound(call.arg)
       /\ call.path = "exception" => "error" \in DOMAIN call.result

\* get_resource_content('user-doc-0') has returned the not-found error value
C18_Witness ==
    /\ call.op = "detail"
    /\ call.arg = UserDocId(0)
    /\ call.result = UserDocumentNotFound(UserDocId(0))
    /\ call.adapters = <<>>

\* the not-found error values of the well-formed ids
NotFoundErrors ==
    {UserDocumentNotFound(id) : id \in RequestIds}
    \cup {fetch_pubmed_article(<<"1">>, [kind |-> "absent", title |-> None]),
          fetch_bookshelf_content(<<"B">>, [kind |-> "absent", title |-> None]),
          fetch_chapter_content(<<"B">>, <<"C">>, [kind |-> "absent", title |-> None])}

\* the id starts with none of pubmed-, bookshelf-, user-doc-
NoKnownPrefix(resource_id) ==
    /\ ~StartsWith(resource_id, PubmedPrefix)
    /\ ~StartsWith(resource_id, BookshelfPrefix)
    /\ ~StartsWith(resource_id, UserDocPrefix)

\* C19: get_resource_content on an id of no known prefix whose stored record,
\* if any, has no content calls no adapter and stores nothing (the rows stay as
\* they were, but for the id's access_count); when get_resource returns, its
\* value is the unknown-format error with the id, which is none of the
\* not-found error values; when get_resource raises because a discarded
\* connection holds the write lock, its value is the failure value of the outer
\* except branch.
C19_MalformedId ==
    (/\ call.op = "detail"
     /\ NoKnownPrefix(call.arg)
     /\ ~(Stored(call.pre, call.arg)
          /\ Truthy(ParsedRow(call.pre[call.arg]).cached_content)))
    => /\ call.adapters = <<>>
       /\ call.puts = <<>>
       /\ SameButCount(resources, call.pre, call.arg)
       /\ UnknownFormat(call.arg) \notin NotFoundErrors
       /\ ~(Stored(call.pre, call.arg) /\ call.pre_locked)
          => call.result = UnknownFormat(call.arg)
       /\ (Stored(call.pre, call.arg) /\ call.pre_locked)
          => call.result = DetailFailed

\* get_resource_content('test-1') has returned the unknown-format error for a
\* stored record without content
C19_Witness ==
    /\ call.op = "detail"
    /\ call.arg = X1
    /\ Stored(call.pre, X1)
    /\ call.result = UnknownFormat(X1)
    /\ call.adapters = <<>>
    /\ call.puts = <<>>

\* the sub-identifiers the requested ids are made from
Pmids == {<<"1">>}

BookIds == {<<"B">>}

ChapterIds == {<<"C">>, <<"C", "-", "D">>}

\* one call of the adapter function fn with the arguments args
OneFetch(adapters, fn, args) ==
    /\ Len(adapters) = 1
    /\ adapters[1].fn = fn
    /\ adapters[1].args = args

\* C20: on a cache miss (get_resource returned no record with content)
\* get_resource_content makes exactly one detail-fetch, chosen by the form of
\* the id: pubmed-<PMID> calls fetch_pubmed_article(PMID), bookshelf-<BookID>
\* calls fetch_bookshelf_content(BookID), bookshelf-<BookID>-<ChapterID> calls
\* fetch_chapter_content(BookID, ChapterID), and a user-doc- id calls no adapter.
C20_RoutedByForm ==
    (/\ call.op = "detail"
     /\ ~(Stored(call.pre, call.arg)
          /\ (call.pre_locked \/ Truthy(ParsedRow(call.pre[call.arg]).cached_content))))
    => /\ \A pmid \in Pmids :
            call.arg = PubmedId(pmid)
            => OneFetch(call.adapters, "fetch_pubmed_article", <<pmid>>)
       /\ \A book_id \in BookIds :
            call.arg = BookshelfId(book_id)
            => OneFetch(call.adapters, "fetch_bookshelf_content", <<book_id>>)
       /\ \A book_id \in BookIds, chapter_id \in ChapterIds :
            call.arg = ChapterId(book_id, chapter_id)
            => OneFetch(call.adapters, "fetch_chapter_content", <<book_id, chapter_id>>)
       /\ StartsWith(call.arg, UserDocPrefix) => call.adapters = <<>>

-----------------------------------------------------------------------------
(* Identifiers *)

\* C21: formatting and parsing an id round-trip: when get_resource_content
\* fetched the record of a pubmed- or bookshelf- id (adapter success, record
\* written through), the record it returns has the requested id and the store
\* holds a row under the requested id.
C21_IdRoundTrip ==
    (/\ call.op = "detail"
     /\ call.path = "fetched"
     /\ StartsWith(call.arg, PubmedPrefix) \/ StartsWith(call.arg, BookshelfPrefix))
    => /\ call.result.id = call.arg
       /\ Stored(resources, call.arg)

\* the origin of a record: its source_type and source_id
Origin(r) == <<r.source_type, DictGet(r, "source_id")>>

\* connection c ran the INSERT of add_user_document and built the document's
\* resource_data (lines 191-198)
Inserted(c) == c.op = "add_user_document" /\ UserDocId(c.at) \in DOMAIN c.docs

MirrorOf(c) == MirrorResource(c.arg[1], c.arg[2], c.at)

\* C22: a record's id is a function of its origin: the records the adapters
\* build for one PMID or one BookID have one id whatever else they hold, and two
\* add_user_document calls given the same title and content, whose records
\* have the same source_type and source_id, build records of the same id,
\* whenever they run.
C22_IdFromOrigin ==
    /\ \A pmid \in Pmids, t \in {T1, T2, None} :
        /\ PubmedSearchRecord(pmid, t).id = PubmedId(pmid)
        /\ PubmedArticleRecord(pmid, t).id = PubmedId(pmid)
    /\ \A book_id \in BookIds, t \in {T1, T2, None} :
        /\ BookshelfSearchRecord(book_id, t).id = BookshelfId(book_id)
        /\ BookRecord(book_id, t).id = BookshelfId(book_id)
    /\ \A p \in Callers, q \in Callers :
        (/\ Inserted(conns[p])
         /\ Inserted(conns[q])
         /\ conns[p].arg = conns[q].arg
         /\ Origin(MirrorOf(conns[p])) = Origin(MirrorOf(conns[q])))
        => MirrorOf(conns[p]).id = MirrorOf(conns[q]).id

-----------------------------------------------------------------------------
(* search_resources *)

\* q occurs in s as a run of tokens, letter case apart
ContainsText(s, q) ==
    \E i \in 1..(Len(s) - Len(q) + 1) :
        \A k \in 1..Len(q) : Fold(s[i + k - 1]) = Fold(q[k])

\* the row satisfies every filter that is given
Satisfies(row, a) ==
    /\ TruthyText(a.query)
       => (ContainsText(row.title, a.query) \/ ContainsText(row.cached_content, a.query))
    /\ TruthyText(a.specialty) => row.specialty = a.specialty
    /\ TruthyText(a.difficulty) => row.difficulty = a.difficulty
    /\ TruthyText(a.content_type) => row.content_type = a.content_type

\* C23: the filters of search_resources are conjunctive: every record it
\* returns satisfies every given filter (the query occurring in the title or in
\* the serialized content, letter case apart; specialty, difficulty and
\* content_type equal), and when fewer than limit rows satisfy them all, each
\* of those rows is returned.
C23_Conjunctive ==
    call.op = "search_resources"
    => /\ \A k \in 1..Len(call.result) :
            Satisfies(call.pre[call.result[k].id], call.arg)
       /\ Cardinality({i \in DOMAIN call.pre : Satisfies(call.pre[i], call.arg)})
              < call.arg.limit
          => \A i \in {j \in DOMAIN call.pre : Satisfies(call.pre[j], call.arg)} :
                \E k \in 1..Len(call.result) : call.result[k].id = i

\* the keys of the rows that a search with arguments a matches, as the code tests them
Matching(db, a) ==
    {i \in DOMAIN db : Matches(db[i], a.query, a.specialty, a.difficulty, a.content_type)}

\* the keys returned, in the order returned
ReturnedIds(result) == [k \in 1..Len(result) |-> result[k].id]

\* C24: search_resources returns matching rows, each once, ordered by
\* access_count descending and cut to limit: no returned record has a smaller
\* access_count than a later one or than a matching record left out, a record
\* is left out only when limit records are returned, and of two matching
\* records the one read more often by get comes first.
C24_Ranked ==
    call.op = "search_resources"
    => LET ids == ReturnedIds(call.result)
           matching == Matching(call.pre, call.arg)
           out == matching \ {ids[k] : k \in 1..Len(ids)}
       IN  /\ \A k \in 1..Len(ids) :
                /\ ids[k] \in matching
                /\ call.result[k] = ParsedRow(call.pre[ids[k]])
           /\ \A j, k \in 1..Len(ids) : j < k =>
                /\ ids[j] # ids[k]
                /\ call.result[j].access_count >= call.result[k].access_count
           /\ \A k \in 1..Len(ids), i \in out :
                call.result[k].access_count >= call.pre[i].access_count
           /\ call.arg.limit >= 0 => Len(ids) <= call.arg.limit
           /\ out # {} => Len(ids) = call.arg.limit
           /\ \A i, j \in matching :
                GetsOf(gets, i) > GetsOf(gets, j)
                => /\ j \in {ids[k] : k \in 1..Len(ids)} => i \in {ids[k] : k \in 1..Len(ids)}
                   /\ \A k, l \in 1..Len(ids) : (ids[k] = i /\ ids[l] = j) => k < l

\* a search with limit 1 returned the record read by get and left out a
\* matching one that was never read
C24_Witness ==
    /\ call.op = "search_resources"
    /\ call.arg.limit = 1
    /\ Len(call.result) = 1
    /\ call.result[1].access_count > 0
    /\ \E i \in Matching(call.pre, call.arg) :
         /\ i # call.result[1].id
         /\ call.pre[i].access_count = 0
         /\ GetsOf(gets, i) = 0

-----------------------------------------------------------------------------
(* search_medical_content: allocation and order *)

\* the positions in the call's adapter calls at which fn was called
CallsOf(c, fn) == {k \in 1..Len(c.adapters) : c.adapters[k].fn = fn}

\* the result bounds given to the adapters that were called, added up
RECURSIVE Allocated(_)
Allocated(adapters) ==
    IF adapters = <<>> THEN 0 ELSE Head(adapters).max_results + Allocated(Tail(adapters))

\* C25: when the store returned fewer than max_results records,
\* remaining = max_results - len(local) is split as floor(remaining / 2) for
\* PubMed and the rest for Bookshelf: each adapter is called at most once, with
\* its allocation as result bound, it is called exactly when its allocation is
\* not zero, PubMed before Bookshelf, and the bounds given add up to remaining.
C25_Allocation ==
    (/\ call.op = "search"
     /\ call.path # "exception"
     /\ Len(call.local_results) < call.arg.max_results)
    => LET remaining == call.arg.max_results - Len(call.local_results)
           half == remaining \div 2
           rest == remaining - (remaining \div 2)
       IN  /\ half + rest = remaining
           /\ Cardinality(CallsOf(call, "search_pubmed")) = (IF half = 0 THEN 0 ELSE 1)
           /\ Cardinality(CallsOf(call, "search_bookshelf")) = (IF rest = 0 THEN 0 ELSE 1)
           /\ \A k \in CallsOf(call, "search_pubmed") : call.adapters[k].max_results = half
           /\ \A k \in CallsOf(call, "search_bookshelf") : call.adapters[k].max_results = rest
           /\ \A k \in CallsOf(call, "search_pubmed"), l \in CallsOf(call, "search_bookshelf") :
                k < l
           /\ CallsOf(call, "search_pubmed") \cup CallsOf(call, "search_bookshelf")
                = 1..Len(call.adapters)
           /\ Allocated(call.adapters) = remaining

\* an odd remainder was split unevenly, the extra one going to Bookshelf
C25_Witness ==
    /\ call.op = "search"
    /\ call.path = "fanout"
    /\ (call.arg.max_results - Len(call.local_results)) % 2 = 1
    /\ Len(call.adapters) = 2
    /\ call.adapters[1].max_results < call.adapters[2].max_results

\* what the adapter fn returned to the call, nothing when it was not called
Returned(c, fn) ==
    IF CallsOf(c, fn) = {} THEN <<>>
    ELSE LET k == CHOOSE k \in CallsOf(c, fn) : TRUE
         IN  IF fn = "search_pubmed" THEN search_pubmed(c.adapters[k].reply)
             ELSE search_bookshelf(c.adapters[k].reply)

\* C26: the list returned by search_medical_content (max_results not
\* negative, the store searched without error) is the store's results, then
\* what PubMed returned, then what Bookshelf returned, each in the order its
\* source returned them, cut to max_results; nothing is re-ranked.
C26_SourceOrder ==
    (/\ call.op = "search"
     /\ call.path # "exception"
     /\ call.arg.max_results >= 0)
    => call.result = Slice(call.local_results
                             \o Returned(call, "search_pubmed")
                             \o Returned(call, "search_bookshelf"),
                           call.arg.max_results)

-----------------------------------------------------------------------------
(* get_related_topics and add_topic_mapping *)

\* the entries of a list
Entries(seq) == {seq[k] : k \in 1..Len(seq)}

\* where x stands first in seq
FirstIndex(seq, x) == CHOOSE i \in 1..Len(seq) : seq[i] = x /\ \A j \in 1..(i - 1) : seq[j] # x

\* the non-empty parents that the table holds for topic
ParentsOfTopic(tm, topic) ==
    {ParentOf(r) : r \in {x \in Rows(tm) : TopicOf(x) = topic /\ TruthyText(ParentOf(x))}}

\* the topics that the table holds under topic, topic itself apart
ChildrenOfTopic(tm, topic) ==
    {TopicOf(r) : r \in {x \in Rows(tm) : ParentOf(x) = topic /\ TopicOf(x) # topic}}

\* the other topics that have a parent_topic (not NULL) in common with topic
SiblingsOfTopic(tm, topic) ==
    {TopicOf(r) : r \in {x \in Rows(tm) :
        /\ TopicOf(x) # topic
        /\ ParentOf(x) # Null
        /\ \E y \in Rows(tm) : TopicOf(y) = topic /\ ParentOf(y) = ParentOf(x)}}

\* C27: get_related_topics(topic, limit) returns the first limit entries of
\* the duplicate-free, first-seen-ordered concatenation of the topic's parents,
\* then its children, then its siblings; the parents and children it merges are
\* those of the table; for a topic with at most limit parents every non-empty
\* parent added is in the result, and for a topic with only parent edges and no
\* shared parent the result is exactly its parents.
C27_RelatedOrder ==
    call.op = "get_related_topics"
    => LET topic == call.arg.topic
           limit == call.arg.limit
           merged == call.parents \o call.children \o call.siblings
           result == call.result
           P == ParentsOfTopic(topic_mappings, topic)
       IN  /\ \A j, k \in 1..Len(result) : j < k => result[j] # result[k]
           /\ Entries(result) \subseteq Entries(merged)
           /\ Len(result) = (IF Cardinality(Entries(merged)) < limit
                             THEN Cardinality(Entries(merged)) ELSE limit)
           /\ \A j, k \in 1..Len(result) :
                j < k => FirstIndex(merged, result[j]) < FirstIndex(merged, result[k])
           /\ \A x \in Entries(merged) \ Entries(result), k \in 1..Len(result) :
                FirstIndex(merged, result[k]) < FirstIndex(merged, x)
           /\ Entries(call.parents) = P /\ Len(call.parents) = Cardinality(P)
           /\ Entries(call.children) = ChildrenOfTopic(topic_mappings, topic)
           /\ Entries(call.siblings) \subseteq SiblingsOfTopic(topic_mappings, topic)
           /\ Cardinality(P) <= limit => P \subseteq Entries(result)
           /\ (/\ Cardinality(P) <= limit
               /\ ChildrenOfTopic(topic_mappings, topic) = {}
               /\ SiblingsOfTopic(topic_mappings, topic) = {})
              => (Entries(result) = P /\ Len(result) = Cardinality(P))

\* parents, children and siblings were all found, a topic came up twice and the
\* merged list was cut
C27_Witness ==
    /\ call.op = "get_related_topics"
    /\ call.parents # <<>> /\ call.children # <<>> /\ call.siblings # <<>>
    /\ Len(Dedup(call.parents \o call.children \o call.siblings))
         < Len(call.parents \o call.children \o call.siblings)
    /\ Len(call.result) < Len(Dedup(call.parents \o call.children \o call.siblings))
    /\ Len(call.result) > Len(call.parents)

\* the distinct topics one hop from topic: parents, children and siblings
RelatedOfTopic(tm, topic) ==
    ParentsOfTopic(tm, topic) \cup ChildrenOfTopic(tm, topic) \cup SiblingsOfTopic(tm, topic)

\* C28: in get_related_topics(topic, limit) the sibling query is cut to at
\* most limit rows before it is merged and deduplicated with parents and
\* children: siblings contribute the rows of the join, repetitions counted, or
\* limit of them when the join has more.
C28_SiblingPreLimit ==
    call.op = "get_related_topics"
    => /\ Len(call.siblings) <= call.arg.limit
       /\ Len(call.siblings) =
            (IF Cardinality(JoinRows(topic_mappings, call.arg.topic)) < call.arg.limit
             THEN Cardinality(JoinRows(topic_mappings, call.arg.topic))
             ELSE call.arg.limit)
       /\ Len(call.result) <=
            Cardinality(Entries(call.parents) \cup Entries(call.children)) + call.arg.limit

\* the result holds fewer than limit topics although more than limit distinct
\* related topics exist: the limit rows of the sibling query all repeat a parent
C28_Witness ==
    /\ call.op = "get_related_topics"
    /\ Len(call.result) < call.arg.limit
    /\ Len(call.siblings) = call.arg.limit
    /\ Cardinality(RelatedOfTopic(topic_mappings, call.arg.topic)) > call.arg.limit

\* C29: after any sequence of add_topic_mapping calls the table holds at most
\* one row per (topic, parent_topic) pair, a NULL parent_topic included: adding
\* a pair that is present replaces its annotations and adds no second row.
C29_UniqueEdge ==
    \A key \in DOMAIN topic_mappings : Len(topic_mappings[key]) <= 1

\* C30: get_related_topics comes to a result on every edge set, cyclic or
\* not, and looks one hop from the topic in each direction: every returned
\* topic is a parent of the topic, a child of it, or has a parent in common
\* with it.
C30_OneHop ==
    /\ call = Idle
       => \A topic \in AskedTopics, limit \in 0..MaxResults :
            get_related_topics(topic_mappings, topic, limit) # {}
    /\ call.op = "get_related_topics"
       => Entries(call.result) \subseteq RelatedOfTopic(topic_mappings, call.arg.topic)

\* on an edge set with a cycle (p under itself), asked about t under p, the
\* result left room and yet left out g, the parent of p
C30_Witness ==
    /\ call.op = "get_related_topics"
    /\ call.arg.topic = TopicT
    /\ Stored(topic_mappings, <<TopicT, TopicP>>)
    /\ Stored(topic_mappings, <<TopicP, TopicP>>)
    /\ Stored(topic_mappings, <<TopicP, TopicG>>)
    /\ TopicP \in Entries(call.result)
    /\ TopicG \notin Entries(call.result)
    /\ Len(call.result) < call.arg.limit

-----------------------------------------------------------------------------
(* access_count *)

\* the step is a call that reads id through get_resource: a get of the store, or
\* get_resource_content, whose first statement is database.get_resource(id)
IsGetOf(c, id) == c.op \in {"get", "detail"} /\ c.arg = id

\* C31: across put, get, search, search_content and get_resource_content a
\* stored record stays stored, its access_count never decreases, and it
\* changes only in a step that is a get_resource of that id, by one; put,
\* search and the write-through of a search leave it as it was.
C31_CountFrame ==
    [][\A id \in DOMAIN resources :
          /\ id \in DOMAIN resources'
          /\ resources'[id].access_count >= resources[id].access_count
          /\ resources'[id].access_count # resources[id].access_count
             => /\ IsGetOf(call', id)
                /\ resources'[id].access_count = resources[id].access_count + 1]_vars

\* a search wrote an adapter's record over a stored record that had been read,
\* and its access_count is as before
C31_Witness ==
    /\ call.op = "search"
    /\ \E k \in 1..Len(call.puts) :
         /\ Stored(call.pre, call.puts[k].id)
         /\ call.pre[call.puts[k].id].access_count > 0
         /\ resources[call.puts[k].id].access_count
              = call.pre[call.puts[k].id].access_count
         /\ resources[call.puts[k].id] # call.pre[call.puts[k].id]

-----------------------------------------------------------------------------
(* put, then get *)

\* the cached_content of r as a value: the one given, or the {} that
\* add_resource takes when none is given
ContentOf(r) == IF "cached_content" \in DOMAIN r THEN r.cached_content ELSE EmptyDict

\* the record read back has the columns of r, and r's content as a value
ReadsBack(got, r) ==
    /\ got.id = r.id
    /\ got.title = r.title
    /\ got.source_type = r.source_type
    /\ got.specialty = DictGet(r, "specialty")
    /\ got.difficulty = DictGet(r, "difficulty")
    /\ got.content_type = DictGet(r, "content_type")
    /\ got.source_id = DictGet(r, "source_id")
    /\ got.cached_content = ContentOf(r)

\* C32: put followed by get round-trips the record: when add_resource(r) has
\* returned, get_resource(r.id) finds the record, and a get_resource that reads
\* a row as add_resource(r) left it returns title, source_type, specialty,
\* difficulty, content_type and source_id equal to those of r and
\* cached_content equal to r's as a structured value, not as serialized text.
C32_RoundTrip ==
    /\ (call.op = "put" /\ ~call.raised)
       => /\ GetResourceCall(resources, locked, call.arg.id).found
          /\ ~GetResourceCall(resources, locked, call.arg.id).raised
          /\ ReadsBack(GetResourceCall(resources, locked, call.arg.id).result, call.arg)
    /\ (call.op = "get" /\ call.found /\ ~call.raised)
       => \A r \in RoundTripInputs :
            (r.id = call.arg /\ HoldsRecord(call.pre, r)) => ReadsBack(call.result, r)

\* a record whose content is a dictionary, and one whose content is the empty
\* text, have been put and then read back
C32_Witness ==
    /\ call.op = "get" /\ call.found /\ ~call.raised
    /\ \/ HoldsRecord(call.pre, TestResource) /\ call.arg = TestResource.id
       \/ HoldsRecord(call.pre, WithContent(PyStr(<<>>)))
            /\ call.arg = TestResource.id
    /\ call.result.cached_content \in {TestResource.cached_content, PyStr(<<>>)}

-----------------------------------------------------------------------------
(* What search_medical_content returns *)

\* C33: search_medical_content never returns two entries with the same id,
\* also when an adapter returns a record whose id is among the local results
\* of the same call.
C33_DistinctIds ==
    (call.op = "search" /\ call.path # "exception")
    => \A j, k \in 1..Len(call.result) :
          j # k => call.result[j].id # call.result[k].id

\* the entry has the specialty, difficulty and content_type asked for, as far
\* as they were given
HasFilters(entry, a) ==
    /\ TruthyText(a.specialty) => DictGet(entry, "specialty") = a.specialty
    /\ TruthyText(a.difficulty) => DictGet(entry, "difficulty") = a.difficulty
    /\ TruthyText(a.content_type) => DictGet(entry, "content_type") = a.content_type

\* C34: every entry returned by search_medical_content(query, specialty,
\* difficulty, content_type, max_results) satisfies each filter that was given,
\* whether it came from the store or from an adapter (of the query only this
\* much is stated here: an entry of the store matches it as the store matches).
C34_FiltersHold ==
    (call.op = "search" /\ call.path # "exception")
    => \A k \in 1..Len(call.result) :
          /\ HasFilters(call.result[k], call.arg)
          /\ k <= Len(call.local_results)
             => Matches(call.pre[call.result[k].id], call.arg.query, call.arg.specialty,
                        call.arg.difficulty, call.arg.content_type)

\* the row holds content: what get_resource parses from it is truthy
HasContent(row) == Truthy(ParsedRow(row).cached_content)

\* C35: when the store holds a record with non-empty cached_content, no call
\* of search_medical_content leaves that id stored with empty cached_content,
\* also when an adapter's search returns a partial record with the same id,
\* which is then written through.
C35_ContentKept ==
    call.op = "search"
    => \A id \in DOMAIN call.pre :
          HasContent(call.pre[id]) => (Stored(resources, id) /\ HasContent(resources[id]))

-----------------------------------------------------------------------------
(* Connections of one operation *)

\* C36: no store operation writes on a second connection while a connection
\* it opened itself holds an uncommitted write: an add_user_document whose
\* INSERT into user_documents has run is not stopped by the write lock when
\* its nested add_resource writes, and a running call with an open write
\* transaction has raised nothing.
C36_NoSelfBlock ==
    \A p \in Callers :
        /\ Inserted(conns[p]) /\ conns[p].pc = "done"
           => (~conns[p].raised /\ conns[p].error # "OperationalError")
        /\ Writer(p) => ~conns[p].raised

-----------------------------------------------------------------------------
(* The topic asked about *)

\* C37: on every edge set, those with a self-edge (t, t) and those with
\* cycles included, the result of get_related_topics(topic, limit) does not
\* contain the topic asked about.
C37_NotItself ==
    call.op = "get_related_topics" => call.arg.topic \notin Entries(call.result)

-----------------------------------------------------------------------------
(* get_resource_content and access_count *)

\* C38: every call of get_resource_content(id) on an id that is stored raises
\* that id's access_count by exactly one, whichever way the call goes (cache
\* hit, fetch and write-through, failed fetch, unknown prefix), and leaves the
\* access_count of every other record as it was.
C38_DetailCountsOnce ==
    (call.op = "detail" /\ Stored(call.pre, call.arg))
    => /\ Stored(resources, call.arg)
       /\ resources[call.arg].access_count = call.pre[call.arg].access_count + 1
       /\ \A id \in DOMAIN call.pre \ {call.arg} :
            resources[id].access_count = call.pre[id].access_count

-----------------------------------------------------------------------------
(* restore_backup *)

\* C39: when restore_backup(backup_path, target_path) returns False, the
\* target database file holds what it held before the call, both when the
\* target existed before the call and when it did not.
C39_FailedRestoreKeepsTarget ==
    (call.op = "restore_backup" /\ ~call.result.returned)
    => files.target = call.arg.files.target

-----------------------------------------------------------------------------
(* The tools built on search_medical_content: get_topic_overview,
   suggest_learning_resources, generate_learning_plan *)

\* the limit the tools pass to search_medical_content (max_results=5)
ToolMaxResults == 5

FirstYear == <<"first_year">>

SecondYear == <<"second_year">>

ClinicalYears == <<"clinical_years">>

\* the student levels the tools are called with
Levels == {FirstYear, SecondYear}

\* lines 356-362: difficulty_map.get(student_level, "intermediate")
difficulty_map(student_level) ==
    IF student_level = FirstYear THEN Basic
    ELSE IF student_level = ClinicalYears THEN <<"advanced">>
    ELSE <<"intermediate">>

\* the arguments a tool passes to search_medical_content
ToolSearch(topic, difficulty) ==
    [query |-> topic, specialty |-> None, difficulty |-> difficulty,
     content_type |-> None, max_results |-> ToolMaxResults]

\* what one call of search_medical_content leaves and returns
SearchRun(db, lk, result) == [db |-> db, locked |-> lk, result |-> result]

\* search_medical_content(a) called by a tool: what it may come to.  Either
\* its local search raises and the outer except branch returns the failure
\* list, or it runs on some order of the matching rows and some answers of
\* the adapters
SearchRuns(db, lk, a, t) ==
    {SearchRun(db, lk, SearchFailed)} \cup
    UNION {LET remaining == a.max_results - Len(local)
               pubmed_called == remaining > 0 /\ PubmedCount(remaining) > 0
               bookshelf_called == remaining > 0
           IN  {LET out == SearchOutcome(db, lk, a, local, pubmed_reply,
                                         bookshelf_reply, gc, t)
                IN  SearchRun(out.db, out.locked, out.result) :
                    pubmed_reply \in (IF pubmed_called THEN PubmedReplies ELSE {NoReply}),
                    bookshelf_reply \in (IF bookshelf_called THEN BookshelfReplies
                                         ELSE {NoReply}),
                    gc \in BOOLEAN} :
           local \in search_resources(db, a.query, a.specialty, a.difficulty,
                                      a.content_type, a.max_results)}

\* resource.get(key, default)
GetOr(resource, key, default) ==
    IF key \in DOMAIN resource THEN resource[key] ELSE default

\* generate_recommendation_rationale (lines 380-391): the sentence by source
generate_recommendation_rationale(resource) ==
    LET source_type == GetOr(resource, "source_type", <<>>)
    IN  IF source_type = <<"pubmed">> THEN <<"peer-reviewed", "article">>
        ELSE IF source_type = <<"bookshelf">> THEN <<"textbook", "chapter">>
        ELSE IF source_type = <<"user_provided">> THEN <<"previously", "uploaded">>
        ELSE <<"key", "information">>

\* a call's end: its value, or the exception it raised
Value(v) == [raised |-> FALSE, error |-> "none", value |-> v]

Raises(error) == [raised |-> TRUE, error |-> error, value |-> <<>>]

\* lines 368-378: the loop that reads resource['id'] and resource['title'] of
\* every entry of the list search_medical_content returned
suggest_learning_resources(resources_found) ==
    IF \E i \in 1..Len(resources_found) :
           ~({"id", "title"} \subseteq DOMAIN resources_found[i])
    THEN Raises("KeyError")
    ELSE Value([i \in 1..Len(resources_found) |->
                   [id |-> resources_found[i].id,
                    title |-> resources_found[i].title,
                    type |-> GetOr(resources_found[i], "content_type", <<"article">>),
                    rationale |-> generate_recommendation_rationale(resources_found[i])]])

\* extract_definition's fallback (line 283): no record of the model carries
\* a sentence of more than 30 characters that names the topic
extract_definition(topic) == <<"The", "topic">> \o topic \o <<"requires", "exploration">>

\* extract_key_concepts' generic concepts (lines 322-337): no record of the
\* model carries MeSH terms or chapters
extract_key_concepts(topic) ==
    <<<<"Fundamental", "principles", "of">> \o topic,
      <<"Clinical", "significance", "of">> \o topic,
      <<"Anatomical", "considerations", "in">> \o topic,
      <<"Physiological", "mechanisms", "of">> \o topic,
      <<"Pathological", "changes", "in">> \o topic>>

\* lines 220-225: the fallback when no related topic is stored
RelatedOrFallback(topic, related_topics) ==
    IF related_topics = <<>>
    THEN <<topic \o <<"pathophysiology">>, topic \o <<"anatomy">>,
           topic \o <<"clinical", "aspects">>>>
    ELSE related_topics

\* get_topic_overview (lines 196-245) after its search returned resources_found
\* and get_related_topics returned related_topics
get_topic_overview(topic, resources_found, related_topics) ==
    IF resources_found # <<>> /\ "error" \in DOMAIN resources_found[1]
    THEN [error |-> <<"Failed", "to", "find", "resources">>]
    ELSE IF \E i \in 1..Len(Slice(resources_found, 3)) :
                ~({"id", "title"} \subseteq DOMAIN resources_found[i])
    THEN [error |-> <<"Failed", "to", "generate", "topic", "overview">>]
    ELSE [topic |-> topic,
          definition |-> extract_definition(topic),
          key_concepts |-> extract_key_concepts(topic),
          related_topics |-> RelatedOrFallback(topic, related_topics),
          recommended_resources |->
              [i \in 1..Len(Slice(resources_found, 3)) |->
                  [id |-> resources_found[i].id, title |-> resources_found[i].title,
                   type |-> GetOr(resources_found[i], "content_type", <<"unknown">>)]]]

\* lines 446-460: the plan reads overview['definition'], ['key_concepts'] and
\* ['related_topics']
LearningPlan(topic, student_level, overview, suggested) ==
    IF ~({"definition", "key_concepts", "related_topics"} \subseteq DOMAIN overview)
    THEN Raises("KeyError")
    ELSE Value([topic |-> topic, student_level |-> student_level,
                definition |-> overview.definition,
                key_concepts |-> overview.key_concepts,
                suggested_resources |-> suggested,
                related_topics |-> overview.related_topics])

\* generate_learning_plan (lines 421-460) after get_topic_overview returned
\* overview and suggest_learning_resources ended as suggested
generate_learning_plan(topic, student_level, overview, suggested) ==
    IF suggested.raised THEN suggested
    ELSE LearningPlan(topic, student_level, overview, suggested.value)

\* suggest_learning_resources(topic, student_level)
SuggestLearningResources(topic, student_level) ==
    /\ call = Idle
    /\ \E run \in SearchRuns(resources, locked,
                             ToolSearch(topic, difficulty_map(student_level)), now) :
        \E out \in {suggest_learning_resources(run.result)} :
            /\ resources' = run.db
            /\ locked' = run.locked
            /\ call' = [Idle EXCEPT !.op = "suggest_learning_resources",
                           !.arg = <<topic, student_level>>, !.searched = run.result,
                           !.result = out.value, !.raised = out.raised,
                           !.pre = resources, !.pre_locked = locked]
            /\ UNCHANGED <<files, topic_mappings, user_documents, now, gets, conns>>

\* generate_learning_plan(topic, student_level): get_topic_overview with its
\* search and its related topics, then suggest_learning_resources with its
\* search.  gc: the garbage collector ran between the two
GenerateLearningPlan(topic, student_level) ==
    /\ call = Idle
    /\ \E first \in SearchRuns(resources, locked, ToolSearch(topic, None), now),
          related \in get_related_topics(topic_mappings, topic, 5), gc \in BOOLEAN :
        \E second \in SearchRuns(first.db, first.locked /\ ~gc,
                                 ToolSearch(topic, difficulty_map(student_level)), now) :
            \E overview \in {get_topic_overview(topic, first.result, related.result)} :
                \E out \in {generate_learning_plan(topic, student_level, overview,
                               suggest_learning_resources(second.result))} :
                    /\ resources' = second.db
                    /\ locked' = second.locked
                    /\ call' = [Idle EXCEPT !.op = "generate_learning_plan",
                                   !.arg = <<topic, student_level>>,
                                   !.overview = overview, !.searched = second.result,
                                   !.result = out.value, !.raised = out.raised,
                                   !.pre = resources, !.pre_locked = locked]
                    /\ UNCHANGED <<files, topic_mappings, user_documents, now, gets,
                                   conns>>

\* the tools, and the store beneath them
NextTools ==
    \/ \E r \in SeedInputs : Put(r)
    \/ \E student_level \in Levels : SuggestLearningResources(T1, student_level)
    \/ \E student_level \in Levels : GenerateLearningPlan(T1, student_level)
    \/ Collect
    \/ Return

SpecTools == Init /\ [][NextTools]_vars

\* C40: when search_medical_content returned its failure list to
\* suggest_learning_resources, or get_topic_overview returned an error value to
\* generate_learning_plan, the tool returns a value to its caller: it does not
\* raise.
C40_ToolsReturn ==
    (/\ call.op \in {"suggest_learning_resources", "generate_learning_plan"}
     /\ \/ call.searched = SearchFailed
        \/ "error" \in DOMAIN call.overview)
    => ~call.raised

====
